---- MODULE Spec2Model ----
(***************************************************************************)
(* Report-lifecycle orchestration of qualys-automation:                    *)
(*   ReportService.create_reports_with_smart_batching_v2                   *)
(*   ReportService.create_and_wait_reports_batch                           *)
(*   ReportService.monitor_reports_until_completion                        *)
(*   ReportService.create_reports_with_smart_batching                      *)
(*   QualysClient.wait_for_report_slots                                    *)
(*   QualysClient._make_request with _check_rate_limit                     *)
(*   process_network_scans_pdf and wait_for_reports_completion of main.py  *)
(* and the index-based batch slicing of the service and of main.py.        *)
(*                                                                         *)
(* Every remote call (create, status check, download, running-jobs query)  *)
(* is one step whose outcome is chosen nondeterministically.  Times are    *)
(* counted in the code's own variables (waited, max_wait, check_interval)  *)
(* with scaled-down values.                                                *)
(***************************************************************************)
EXTENDS Integers, Sequences, FiniteSets, TLC

\* ---------------------------------------------------------------- bounds
\* Longest request list handed to an orchestrator.
MaxReq == 3
\* creation_controls['batch_size'] (4 in the default configuration), scaled.
MaxBatchSize == 2
\* QualysClient.max_running_reports (8 in the default configuration), scaled.
MaxRunning == 2
\* Outer iterations of create_reports_with_smart_batching_v2 that are explored.
MaxBatches == 2
\* max_wait / check_interval of monitor_reports_until_completion (3600 / 30), scaled.
MonitorMaxWait == 2
MonitorCheckInterval == 1
\* max_wait of the two wait_for_report_slots calls of
\* create_reports_with_smart_batching (600 and 300) and the default
\* check_interval (30), scaled.
BatchSlotMaxWait == 2
SingleSlotMaxWait == 1
DefaultCheckInterval == 1
\* Parameters of a wait_for_report_slots call explored on its own.
MaxRequired == 3
MaxSlotWait == 4
MaxSlotInterval == 2
\* APIConfig.max_retries (3 in the default configuration), scaled, and the
\* calls of _make_request explored on one client.
MaxRetries == 2
MaxCalls == 3
\* Longest request list of the runs under the default configuration.
ScenarioRequests == 10
\* Lists and batch sizes explored by the slicing loops.
MaxPlanLen == 6
MaxPlanBatch == 3

VARIABLES
    pc,                    \* position of the orchestrator
    reports_to_create,     \* the caller's request list (requests are 1..n)
    remaining_reports,     \* v2: requests not yet consumed
    all_processed_reports, \* v2: accumulated result entries
    batch_number,          \* v2: 1-based iteration counter
    batch,                 \* requests admitted in the current batch
    i,                     \* 1-based index of the next create call in batch
    created_report_ids,    \* ids returned by the creates of the current batch
    created_reports_info,  \* entries of the current batch (mutated in place)
    completed_reports,     \* monitor: ids seen Finished
    failed_reports,        \* monitor: ids seen Error / Cancelled
    waited,                \* monitor: elapsed wait
    sweep,                 \* monitor: ids still to check in the running sweep
    d,                     \* download phase: 1-based index into created_reports_info
    final_reports,         \* download phase: entries produced so far
    batch_results,         \* value returned by create_and_wait_reports_batch
    next_id,               \* next report id the remote service hands out
    db,                    \* ScanReport rows, indexed by report id
    submitted,             \* history: requests passed to a create call, in order
    last_call,             \* history: the last remote call issued
    events,                \* history: the waits that returned and the creates issued
    w_pc,                  \* wait_for_report_slots: "idle", "polling" or "returned"
    required_slots,        \* wait_for_report_slots: parameter
    max_wait,              \* wait_for_report_slots: parameter
    check_interval,        \* wait_for_report_slots: parameter
    slot_waited,           \* wait_for_report_slots: its local waited
    w_result,              \* wait_for_report_slots: the value returned
    polls,                 \* history: running-jobs queries issued by the call
    listing_calls,         \* history: get_running_reports calls issued by the call
    batch_size,            \* create_reports_with_smart_batching: parameter
    batch_num,             \* create_reports_with_smart_batching: 0-based loop index
    created_reports,       \* create_reports_with_smart_batching: its result list
    plan_variant,          \* slicing: "service" or "main"
    plan_data,             \* slicing: the list being sliced
    plan_b,                \* slicing: the batch size
    plan_i,                \* slicing: the loop variable (batch_num, or main.py's i)
    plan_slices,           \* history: the slices taken so far, in order
    plan_pc,               \* slicing: "loop" or "done"
    max_batch_size,        \* ReportService.creation_controls['batch_size']
    max_running_reports,   \* QualysClient.max_running_reports
    max_iterations,        \* the iterations of the v2 loop explored in this run
    faults,                \* whether remote calls may end in a 401 or a declined prompt
    available_slots,       \* create_and_wait_reports_batch: its local available_slots
    download_log,          \* history: the report ids passed to a download call
    rate_limit_remaining,  \* QualysClient.rate_limit_remaining: <<>> (None) or <<n>>
    main_i,                \* process_network_scans_pdf: the loop variable i
    reports_not_finished,  \* wait_for_reports_completion: the set of active ids
    successful_downloads,  \* process_network_scans_pdf: its counter and result
    r_pc,                  \* _make_request: "idle" (no call running) or "attempt"
    attempt,               \* _make_request: the loop variable
    max_retries,           \* APIConfig.max_retries
    calls,                 \* history: the calls of _make_request so far
    http_sent,             \* history: the HTTP requests sent by the last call
    warnings,              \* history: the warnings printed by the last call
    prompts,               \* history: the prompts shown by the last call
    answer,                \* history: the answer to that prompt ("-": no prompt)
    r_result,              \* _make_request: "pending", "response" or the error raised
    slept,                 \* history: the seconds slept by the last call
    rate_limit_reset,      \* QualysClient.rate_limit_reset: <<>> (None) or <<n>>
    last_response,         \* history: status and headers met by the last HTTP attempt
    confirmed,             \* history: the user accepted since the last value was seen
    rate_info,             \* get_rate_limit_info() since the last request: <<>> or <<d>>
    pause,                 \* history: the seconds slept since the last create call
    running,               \* the platform: the jobs of this run in state Running
    foreign,               \* the platform: the number of other jobs in state Running
    other_pending,         \* another client: the creates its last slot query admitted
    u_pc,                  \* wait_until_ready_and_download: "idle", "polling",
                           \* "download" or "returned"
    u_variant,             \* which one runs: "service" (ReportService) or "utils"
    u_max_wait,            \* wait_until_ready_and_download: parameter max_wait
    u_interval,            \* wait_until_ready_and_download: parameter interval
    u_waited,              \* wait_until_ready_and_download: its local waited
    u_status,              \* wait_until_ready_and_download: its local status
    u_result,              \* the value returned: <<>> (None) or <<file name>>
    u_polls,               \* history: the status checks issued by the call
    u_downloads,           \* history: the download calls issued by the call
    l_pc,                  \* create_reports_with_limit: "idle", "create", "wait" or "done"
    l_items,               \* create_reports_with_limit: parameter items
    l_k,                   \* create_reports_with_limit: 1-based index of the next item
    l_batch,               \* create_reports_with_limit: its local batch
    l_all_reports,         \* create_reports_with_limit: its local all_reports
    l_finished,            \* wait_for_reports_to_finish: its local finished
    l_sweep                \* wait_for_reports_to_finish: position in the for loop

vars == <<pc, reports_to_create, remaining_reports, all_processed_reports,
          batch_number, batch, i, created_report_ids, created_reports_info,
          completed_reports, failed_reports, waited, sweep, d, final_reports,
          batch_results, next_id, db, submitted, last_call, events,
          w_pc, required_slots, max_wait, check_interval, slot_waited, w_result,
          polls, listing_calls, batch_size, batch_num, created_reports,
          plan_variant, plan_data, plan_b, plan_i, plan_slices, plan_pc,
          max_batch_size, max_running_reports, max_iterations, faults,
          available_slots, download_log, rate_limit_remaining,
          main_i, reports_not_finished, successful_downloads,
          r_pc, attempt, max_retries, calls, http_sent, warnings, prompts, answer,
          r_result, slept, rate_limit_reset, last_response, confirmed, rate_info,
          pause, running, foreign, other_pending,
          u_pc, u_variant, u_max_wait, u_interval, u_waited, u_status, u_result,
          u_polls, u_downloads,
          l_pc, l_items, l_k, l_batch, l_all_reports, l_finished, l_sweep>>

\* The variables of each part, for the frame conditions.
waitvars == <<w_pc, required_slots, max_wait, check_interval, slot_waited,
              w_result, polls, listing_calls>>
v1vars == <<batch_size, batch_num, created_reports>>
planvars == <<plan_variant, plan_data, plan_b, plan_i, plan_slices, plan_pc>>
confvars == <<max_batch_size, max_running_reports, max_iterations, faults>>
mainvars == <<main_i, reports_not_finished, successful_downloads>>
reqvars == <<r_pc, attempt, max_retries, calls, http_sent, warnings, prompts, answer,
             r_result, slept, rate_limit_reset, last_response, confirmed, rate_info>>
remotevars == <<running, foreign, other_pending>>
readyvars == <<u_pc, u_variant, u_max_wait, u_interval, u_waited, u_status, u_result,
               u_polls, u_downloads>>
limitvars == <<l_pc, l_items, l_k, l_batch, l_all_reports, l_finished, l_sweep>>
v2vars == <<remaining_reports, all_processed_reports, batch_number,
            created_report_ids, created_reports_info, completed_reports,
            failed_reports, waited, sweep, d, final_reports, batch_results>>

\* ---------------------------------------------------------------- helpers
Range(s) == {s[k] : k \in 1..Len(s)}

Min(a, b) == IF a <= b THEN a ELSE b

\* Python's s[k:] for 0 <= k.
DropFirst(s, k) == SubSeq(s, Min(k, Len(s)) + 1, Len(s))

\* Python's s[:k] for 0 <= k.
TakeFirst(s, k) == SubSeq(s, 1, Min(k, Len(s)))

\* last_call: the operation, its argument (request, report id or, for a
\* running-jobs query, the count it returned), whether it succeeded and what
\* it returned or raised.
NoCall == [op |-> "none", arg |-> 0, ok |-> TRUE, res |-> "none"]

Call(operation, argument, outcome, success) ==
    [op |-> operation, arg |-> argument, ok |-> success, res |-> outcome]

\* An entry of submitted: the request, the batch it was admitted in and the id
\* the create call returned (0: no id, or the call raised).
CreateCall(report_config, number, report_id) ==
    [req |-> report_config, batch |-> number, id |-> report_id]

\* Entries of events, for create_reports_with_smart_batching: a wait that
\* returned (for the whole batch or for a single slot) with its result, and a
\* create call, each with the 0-based number of the batch.
WaitEvent(kind, num, result) ==
    [kind |-> kind, batch |-> num, req |-> 0, result |-> result]

CreateEvent(num, report_config) ==
    [kind |-> "create", batch |-> num, req |-> report_config, result |-> TRUE]

\* The pauses of the three creation loops, in seconds: after a create of
\* create_and_wait_reports_batch, after a create of the degraded and of the
\* normal mode of create_reports_with_smart_batching and between its batches,
\* after an error of _create_single_report that names a rate or a limit,
\* creation_controls['pause_between_reports'], and the wait of
\* process_network_scans_pdf for the reports to start.
BatchCreatePause == 2
DegradedCreatePause == 3
NormalCreatePause == 2
BatchPause == 5
CreateCooldown == 60
PauseBetweenReports == 2
StartupWait == 30

\* Outcomes of the remote operations as the callers distinguish them ("rate":
\* an exception whose text contains "rate" or "limit").
CreateOutcomes == {"id", "none", "raise", "rate"}
StatusOutcomes == {"Finished", "Error", "Cancelled", "Running", "none", "raise"}
DownloadOutcomes == {"file", "none", "raise"}

\* The states of a job that no longer runs.
TerminalStates == {"Finished", "Error", "Cancelled"}

\* The marks of QualysClient._check_rate_limit.
LowMark == 10
CriticalMark == 5

\* A prompt that also stops at the critical mark itself.
IsCritical_Inclusive(remaining) == remaining # <<>> /\ remaining[1] <= CriticalMark

\* if self.rate_limit_remaining is not None: if self.rate_limit_remaining < 5
IsCritical(remaining) == remaining # <<>> /\ remaining[1] < CriticalMark

\* if self.rate_limit_remaining is not None: if self.rate_limit_remaining < 10
IsLow(remaining) == remaining # <<>> /\ remaining[1] < LowMark

\* The two ways a call of a client method can end besides those above, in the
\* runs that explore them: AuthenticationError after a 401 response, and the
\* APIError of _check_rate_limit when the user declines at the prompt.
FaultOutcomes ==
    IF faults
    THEN {"auth"} \cup (IF IsCritical(rate_limit_remaining) THEN {"declined"} ELSE {})
    ELSE {}

\* The outcomes that reach the caller as an exception.
Raises == {"raise", "rate", "auth", "declined"}

\* rate_limit_remaining after a call of a client method: unchanged, or the
\* value of the header of a response; a declined call sends no request.
Observe(outcome) ==
    IF faults /\ outcome # "declined"
    THEN rate_limit_remaining' \in
             {rate_limit_remaining, <<CriticalMark - 1>>, <<LowMark>>}
    ELSE UNCHANGED rate_limit_remaining

\* ------------------------------------------- create_and_wait_reports_batch
\* A slot count that forgets the jobs that run.
AvailableSlots_IgnoringRunning(running_count) == max_running_reports

\* available_slots as computed from one successful running-jobs query.
AvailableSlots(running_count) == max_running_reports - running_count

\* A batch size that forgets the free slots.
ActualBatchSize_NoSlots(reports_configs, slots) ==
    Min(Len(reports_configs), max_batch_size)

\* A batch size that forgets the configured batch size.
ActualBatchSize_NoCap(reports_configs, slots) == Min(Len(reports_configs), slots)

\* min(len(reports_configs), max_batch_size, available_slots)
ActualBatchSize(reports_configs, slots) ==
    Min(Min(Len(reports_configs), max_batch_size), slots)

NewInfo(report_id, report_config) ==
    [report_id |-> report_id, config |-> report_config,
     status |-> "created", filename |-> 0]

NewRow == [status |-> "created", file_path |-> 0]

\* Entry into the batch: the running-jobs query and the choice of the batch.
\* A failing query is not caught here nor in the caller.
BatchAdmit ==
    /\ pc = "v2_loop"
    /\ remaining_reports # <<>>
    /\ batch_number <= max_iterations
    /\ \E outcome \in {"count", "raise"} \cup FaultOutcomes,
          running_count \in 0..max_running_reports :
        /\ outcome # "count" => running_count = 0
        /\ last_call' = Call("count", running_count, outcome, outcome = "count")
        /\ Observe(outcome)
        /\ IF outcome # "count"
           THEN /\ pc' = "raised"
                /\ UNCHANGED <<batch, i, created_report_ids, created_reports_info,
                               batch_results, available_slots>>
           ELSE LET actual_batch_size ==
                        ActualBatchSize(remaining_reports, AvailableSlots(running_count))
                IN  /\ available_slots' = AvailableSlots(running_count)
                    /\ IF actual_batch_size <= 0
                       THEN /\ pc' = "v2_after"
                            /\ batch_results' = <<>>
                            /\ UNCHANGED <<batch, i, created_report_ids,
                                           created_reports_info>>
                       ELSE /\ pc' = "create"
                            /\ batch' = TakeFirst(remaining_reports, actual_batch_size)
                            /\ i' = 1
                            /\ created_report_ids' = <<>>
                            /\ created_reports_info' = <<>>
                            /\ UNCHANGED batch_results
    /\ UNCHANGED <<waitvars, v1vars, planvars, events>>
    /\ UNCHANGED <<reports_to_create, remaining_reports, all_processed_reports,
                   batch_number, completed_reports, failed_reports, waited, sweep,
                   d, final_reports, next_id, db, submitted>>
    /\ UNCHANGED <<confvars, reqvars, mainvars, download_log>>
    /\ UNCHANGED pause
    /\ UNCHANGED remotevars
    /\ UNCHANGED <<readyvars, limitvars>>

\* Phase 1: one create call; after the last one, the empty-batch return or
\* the start of monitoring.
CreateReport ==
    /\ pc = "create"
    /\ \E outcome \in CreateOutcomes \cup FaultOutcomes :
        LET report_config == batch[i]
            ok == outcome = "id"
            ids == IF ok THEN Append(created_report_ids, next_id)
                   ELSE created_report_ids
        IN  /\ submitted' = Append(submitted,
                   CreateCall(report_config, batch_number, IF ok THEN next_id ELSE 0))
            /\ last_call' = Call("create", report_config, outcome, ok)
            /\ Observe(outcome)
            /\ created_report_ids' = ids
            /\ created_reports_info' =
                   IF ok THEN Append(created_reports_info, NewInfo(next_id, report_config))
                   ELSE created_reports_info
            /\ next_id' = IF ok THEN next_id + 1 ELSE next_id
            /\ running' = IF ok THEN running \cup {next_id} ELSE running
            /\ db' = IF ok THEN Append(db, NewRow) ELSE db
            /\ IF i < Len(batch)
               THEN /\ i' = i + 1
                    /\ pc' = "create"
                    /\ UNCHANGED <<batch_results, completed_reports, failed_reports,
                                   waited>>
               ELSE /\ i' = i
                    /\ IF ids = <<>>
                       THEN /\ pc' = "v2_after"
                            /\ batch_results' = <<>>
                            /\ UNCHANGED <<completed_reports, failed_reports, waited>>
                       ELSE /\ pc' = "monitor"
                            /\ completed_reports' = <<>>
                            /\ failed_reports' = <<>>
                            /\ waited' = 0
                            /\ UNCHANGED batch_results
    /\ UNCHANGED <<waitvars, v1vars, planvars, events>>
    /\ UNCHANGED <<reports_to_create, remaining_reports, all_processed_reports,
                   batch_number, batch, sweep, d, final_reports>>
    /\ UNCHANGED <<confvars, reqvars, mainvars, available_slots, download_log>>
    /\ pause' = IF i < Len(batch) THEN BatchCreatePause ELSE 0
    /\ UNCHANGED <<foreign, other_pending>>
    /\ UNCHANGED <<readyvars, limitvars>>

\* A sweep that checks every id again, the terminal ones included.
StillActive_All(report_ids, completed, failed) == report_ids

\* ----------------------------------------- monitor_reports_until_completion
StillActive(report_ids, completed, failed) ==
    SelectSeq(report_ids,
              LAMBDA rid : rid \notin Range(completed) /\ rid \notin Range(failed))

\* A loop without its deadline.
WhileMonitoring_NoDeadline(elapsed, settled, total) == settled < total

\* while waited < max_wait and
\*       len(completed_reports) + len(failed_reports) < len(report_ids)
WhileMonitoring(elapsed, settled, total) ==
    elapsed < MonitorMaxWait /\ settled < total

\* The while test and the list of ids the sweep will check.
MonitorLoop ==
    /\ pc = "monitor"
    /\ LET remaining == StillActive(created_report_ids, completed_reports,
                                    failed_reports)
       IN  IF /\ WhileMonitoring(waited,
                                 Len(completed_reports) + Len(failed_reports),
                                 Len(created_report_ids))
              /\ remaining # <<>>
           THEN /\ sweep' = remaining
                /\ pc' = "check"
                /\ UNCHANGED <<d, final_reports>>
           ELSE /\ sweep' = <<>>
                /\ pc' = "download"
                /\ d' = 1
                /\ final_reports' = <<>>
    /\ UNCHANGED <<waitvars, v1vars, planvars, events>>
    /\ UNCHANGED <<reports_to_create, remaining_reports, all_processed_reports,
                   batch_number, batch, i, created_report_ids, created_reports_info,
                   completed_reports, failed_reports, waited, batch_results,
                   next_id, db, submitted, last_call>>
    /\ UNCHANGED <<confvars, reqvars, mainvars, available_slots, download_log, rate_limit_remaining>>
    /\ UNCHANGED pause
    /\ UNCHANGED remotevars
    /\ UNCHANGED <<readyvars, limitvars>>

\* A test that also counts a check without a state as a failure of the job.
IsFailure_OrNoState(status) == status \in {"Error", "Cancelled", "none", "raise"}

\* elif status in ["Error", "Cancelled"]
IsFailure(status) == status \in {"Error", "Cancelled"}

\* One status check of the sweep; after the last one, the sleep.
CheckStatus ==
    /\ pc = "check"
    /\ \E status \in StatusOutcomes \cup FaultOutcomes :
        LET report_id == Head(sweep)
            completed == IF status = "Finished"
                         THEN Append(completed_reports, report_id)
                         ELSE completed_reports
            failed == IF IsFailure(status)
                      THEN Append(failed_reports, report_id)
                      ELSE failed_reports
        IN  /\ last_call' = Call("check_status", report_id, status, status \notin Raises)
            /\ Observe(status)
            /\ completed_reports' = completed
            /\ failed_reports' = failed
            /\ running' = IF status \in TerminalStates
                           THEN running \ {report_id} ELSE running
            /\ db' = IF IsFailure(status)
                     THEN [db EXCEPT ![report_id].status = "error"]
                     ELSE db
            /\ sweep' = Tail(sweep)
            /\ IF Tail(sweep) = <<>>
               THEN /\ pc' = "monitor"
                    /\ waited' = IF Len(completed) + Len(failed) < Len(created_report_ids)
                                 THEN waited + MonitorCheckInterval
                                 ELSE waited
                    /\ pause' = IF Len(completed) + Len(failed) < Len(created_report_ids)
                                THEN pause + MonitorCheckInterval
                                ELSE pause
               ELSE /\ pc' = "check"
                    /\ UNCHANGED <<waited, pause>>
    /\ UNCHANGED <<waitvars, v1vars, planvars, events>>
    /\ UNCHANGED <<reports_to_create, remaining_reports, all_processed_reports,
                   batch_number, batch, i, created_report_ids, created_reports_info,
                   d, final_reports, batch_results, next_id, submitted>>
    /\ UNCHANGED <<confvars, reqvars, mainvars, available_slots, download_log>>
    /\ UNCHANGED <<foreign, other_pending>>
    /\ UNCHANGED <<readyvars, limitvars>>

\* An update that marks the entry downloaded and forgets the file name.
Downloaded_NoFilename(report_info) == [report_info EXCEPT !.status = "downloaded"]

\* ------------------------------------------------- phase 3 of the batch
\* The entry of created_reports_info[d] after its turn in the download loop.
Downloaded(report_info) ==
    [report_info EXCEPT !.status = "downloaded", !.filename = report_info.report_id]

\* A test that lets no job through unless all jobs were seen Finished.
IsCompleted_AllOrNothing(report_id, completed) ==
    /\ report_id \in Range(completed)
    /\ Len(completed) = Len(created_report_ids)

\* A test that sends every created report to the download call.
IsCompleted_Always(report_id, completed) == TRUE

\* if report_id in completed_reports
IsCompleted(report_id, completed) == report_id \in Range(completed)

DownloadStep ==
    /\ pc = "download"
    /\ d <= Len(created_reports_info)
    /\ LET report_info == created_reports_info[d]
           report_id == report_info.report_id
           Finish(entry) ==
               /\ created_reports_info' = [created_reports_info EXCEPT ![d] = entry]
               /\ final_reports' = Append(final_reports, entry)
               /\ d' = d + 1
               /\ IF d = Len(created_reports_info)
                  THEN /\ batch_results' = Append(final_reports, entry)
                       /\ pc' = "v2_after"
                  ELSE /\ pc' = "download"
                       /\ UNCHANGED batch_results
       IN  IF IsCompleted(report_id, completed_reports)
           THEN \E outcome \in DownloadOutcomes \cup FaultOutcomes :
                  /\ download_log' = Append(download_log, report_id)
                  /\ last_call' = Call("download", report_id, outcome, outcome = "file")
                  /\ Observe(outcome)
                  /\ CASE outcome = "file" ->
                            /\ db' = [db EXCEPT ![report_id] =
                                        [status |-> "downloaded", file_path |-> report_id]]
                            /\ Finish(Downloaded(report_info))
                      [] outcome = "none" ->
                            /\ db' = db
                            /\ Finish([report_info EXCEPT !.status = "download_failed"])
                      [] outcome \in Raises ->
                            /\ db' = db
                            /\ Finish([report_info EXCEPT !.status = "download_error"])
           ELSE /\ UNCHANGED <<last_call, db, download_log, rate_limit_remaining>>
                /\ Finish([report_info EXCEPT !.status = "timeout"])
    /\ UNCHANGED <<waitvars, v1vars, planvars, events>>
    /\ UNCHANGED <<reports_to_create, remaining_reports, all_processed_reports,
                   batch_number, batch, i, created_report_ids, completed_reports,
                   failed_reports, waited, sweep, next_id, submitted>>
    /\ UNCHANGED <<confvars, reqvars, mainvars, available_slots>>
    /\ UNCHANGED pause
    /\ UNCHANGED remotevars
    /\ UNCHANGED <<readyvars, limitvars>>

\* ------------------------------------ create_reports_with_smart_batching_v2
\* remaining_reports[processed_count:]
RemainingAfter(remaining, results) == DropFirst(remaining, Len(results))

\* The rest of one iteration of the while loop, after the batch returned.
V2AfterBatch ==
    /\ pc = "v2_after"
    /\ all_processed_reports' = all_processed_reports \o batch_results
    /\ remaining_reports' = RemainingAfter(remaining_reports, batch_results)
    /\ batch_number' = batch_number + 1
    /\ pc' = IF remaining_reports' = <<>> THEN "done" ELSE "v2_loop"
    /\ UNCHANGED <<waitvars, v1vars, planvars, events>>
    /\ UNCHANGED <<reports_to_create, batch, i, created_report_ids,
                   created_reports_info, completed_reports, failed_reports, waited,
                   sweep, d, final_reports, batch_results, next_id, db, submitted,
                   last_call>>
    /\ UNCHANGED <<confvars, reqvars, mainvars, available_slots, download_log, rate_limit_remaining>>
    /\ pause' = IF remaining_reports' # <<>> THEN pause + PauseBetweenReports ELSE pause
    /\ UNCHANGED remotevars
    /\ UNCHANGED <<readyvars, limitvars>>

\* ----------------------------------------- QualysClient.wait_for_report_slots
\* A while test that lets the loop run once more when waited == max_wait.
WaitContinues_Inclusive(w, maxw) == w <= maxw

\* The while test.
WaitContinues(w, maxw) == w < maxw

\* The call: waited = 0 and the first evaluation of the while test.
StartWait(required, maxw, interval) ==
    /\ required_slots' = required
    /\ max_wait' = maxw
    /\ check_interval' = interval
    /\ slot_waited' = 0
    /\ polls' = 0
    /\ listing_calls' = 0
    /\ w_pc' = IF WaitContinues(0, maxw) THEN "polling" ELSE "returned"
    /\ w_result' = FALSE

\* A test that asks for one slot more than required.
EnoughSlots_Strict(running_count, required) == AvailableSlots(running_count) > required

\* The test of one successful poll.
EnoughSlots(running_count, required) == AvailableSlots(running_count) >= required

\* time.sleep(check_interval); waited += check_interval, and the next
\* evaluation of the while test (False is returned when it fails).
SleepAndTest ==
    /\ slot_waited' = slot_waited + check_interval
    /\ pause' = pause + check_interval
    /\ w_pc' = IF WaitContinues(slot_waited + check_interval, max_wait)
               THEN "polling" ELSE "returned"
    /\ w_result' = FALSE

\* A listing at every iteration that finds jobs running.
ListsRunning_EveryIteration(w, running_count) == running_count > 0

\* if waited == 0: ... if running_count > 0: get_running_reports()
ListsRunning(w, running_count) == w = 0 /\ running_count > 0

\* One iteration of the while loop up to its next remote call: the
\* running-jobs query, then the return of True, the advisory listing (first
\* iteration only, when jobs are running) or the sleep.  A query that raises
\* is caught and followed by the same sleep.
WaitPoll ==
    /\ w_pc = "polling"
    /\ \E ok \in BOOLEAN, running_count \in 0..max_running_reports :
        /\ polls' = polls + 1
        /\ last_call' = Call("count", IF ok THEN running_count ELSE 0,
                              IF ok THEN "count" ELSE "raise", ok)
        /\ IF ok /\ EnoughSlots(running_count, required_slots)
           THEN /\ w_pc' = "returned"
                /\ w_result' = TRUE
                /\ UNCHANGED <<slot_waited, pause>>
           ELSE IF ok /\ ListsRunning(slot_waited, running_count)
                THEN /\ w_pc' = "listing"
                     /\ UNCHANGED <<slot_waited, w_result, pause>>
                ELSE SleepAndTest
    /\ UNCHANGED <<required_slots, max_wait, check_interval, listing_calls>>
    /\ UNCHANGED <<v2vars, v1vars, planvars>>
    /\ UNCHANGED <<pc, reports_to_create, batch, i, next_id, db, submitted, events>>
    /\ UNCHANGED <<confvars, reqvars, mainvars, available_slots, download_log, rate_limit_remaining>>
    /\ UNCHANGED remotevars
    /\ UNCHANGED <<readyvars, limitvars>>

\* get_running_reports() of the first iteration: its result is printed, its
\* failure is caught by the same handler; the sleep follows in both cases.
WaitListing ==
    /\ w_pc = "listing"
    /\ \E ok \in BOOLEAN :
        last_call' = Call("list", 0, IF ok THEN "list" ELSE "raise", ok)
    /\ listing_calls' = listing_calls + 1
    /\ SleepAndTest
    /\ UNCHANGED <<required_slots, max_wait, check_interval, polls>>
    /\ UNCHANGED <<v2vars, v1vars, planvars>>
    /\ UNCHANGED <<pc, reports_to_create, batch, i, next_id, db, submitted, events>>
    /\ UNCHANGED <<confvars, reqvars, mainvars, available_slots, download_log, rate_limit_remaining>>
    /\ UNCHANGED remotevars
    /\ UNCHANGED <<readyvars, limitvars>>

\* -------------------------------------------------------- batch slicing
\* A total_batches that rounds down and so forgets the last, shorter batch.
TotalBatches_Floor(n, b) == n \div b

\* total_batches of create_reports_with_smart_batching and main.py.
TotalBatches(n, b) == (n + b - 1) \div b

\* reports_to_create[start_idx:end_idx] of create_reports_with_smart_batching.
BatchSlice(reports, b, num) ==
    LET start_idx == num * b
        end_idx == Min(start_idx + b, Len(reports))
    IN  SubSeq(reports, start_idx + 1, end_idx)

\* data[i:i + batch_size] of process_network_scans_pdf.
MainSlice(data, idx, b) == SubSeq(data, idx + 1, Min(idx + b, Len(data)))

\* for batch_num in range(total_batches): one slice.
PlanServiceStep ==
    /\ plan_pc = "loop"
    /\ plan_variant = "service"
    /\ IF plan_i < TotalBatches(Len(plan_data), plan_b)
       THEN /\ plan_slices' = Append(plan_slices, BatchSlice(plan_data, plan_b, plan_i))
            /\ plan_i' = plan_i + 1
            /\ UNCHANGED plan_pc
       ELSE /\ plan_pc' = "done"
            /\ UNCHANGED <<plan_slices, plan_i>>
    /\ UNCHANGED <<plan_variant, plan_data, plan_b>>
    /\ UNCHANGED <<v2vars, v1vars, waitvars>>
    /\ UNCHANGED <<pc, reports_to_create, batch, i, next_id, db, submitted, last_call,
                   events>>
    /\ UNCHANGED <<confvars, reqvars, mainvars, available_slots, download_log, rate_limit_remaining>>
    /\ UNCHANGED pause
    /\ UNCHANGED remotevars
    /\ UNCHANGED <<readyvars, limitvars>>

\* for i in range(0, len(data), batch_size): one slice.
PlanMainStep ==
    /\ plan_pc = "loop"
    /\ plan_variant = "main"
    /\ IF plan_i < Len(plan_data)
       THEN /\ plan_slices' = Append(plan_slices, MainSlice(plan_data, plan_i, plan_b))
            /\ plan_i' = plan_i + plan_b
            /\ UNCHANGED plan_pc
       ELSE /\ plan_pc' = "done"
            /\ UNCHANGED <<plan_slices, plan_i>>
    /\ UNCHANGED <<plan_variant, plan_data, plan_b>>
    /\ UNCHANGED <<v2vars, v1vars, waitvars>>
    /\ UNCHANGED <<pc, reports_to_create, batch, i, next_id, db, submitted, last_call,
                   events>>
    /\ UNCHANGED <<confvars, reqvars, mainvars, available_slots, download_log, rate_limit_remaining>>
    /\ UNCHANGED pause
    /\ UNCHANGED remotevars
    /\ UNCHANGED <<readyvars, limitvars>>

\* ----------------------------------------- create_reports_with_smart_batching
\* The head of the for loop: the slice and the wait for len(batch) slots.
V1StartBatch ==
    /\ pc = "v1_loop"
    /\ IF batch_num < TotalBatches(Len(reports_to_create), batch_size)
       THEN LET b == BatchSlice(reports_to_create, batch_size, batch_num)
            IN  /\ batch' = b
                /\ StartWait(Len(b), BatchSlotMaxWait, DefaultCheckInterval)
                /\ pc' = "v1_batch_wait"
       ELSE /\ pc' = "done"
            /\ UNCHANGED <<batch, waitvars>>
    /\ UNCHANGED <<v2vars, v1vars, planvars>>
    /\ UNCHANGED <<reports_to_create, i, next_id, db, submitted, last_call, events>>
    /\ UNCHANGED <<confvars, reqvars, mainvars, available_slots, download_log, rate_limit_remaining>>
    /\ UNCHANGED pause
    /\ UNCHANGED remotevars
    /\ UNCHANGED <<readyvars, limitvars>>

\* The wait for the whole batch returned: create the batch, or fall back to
\* one wait for a single slot per report.
V1BatchWaitReturn ==
    /\ pc = "v1_batch_wait"
    /\ w_pc = "returned"
    /\ events' = Append(events, WaitEvent("batch_wait", batch_num, w_result))
    /\ i' = 1
    /\ IF w_result
       THEN /\ pc' = "v1_create"
            /\ w_pc' = "idle"
            /\ UNCHANGED <<required_slots, max_wait, check_interval, slot_waited,
                           w_result, polls, listing_calls>>
       ELSE /\ pc' = "v1_single_wait"
            /\ StartWait(1, SingleSlotMaxWait, DefaultCheckInterval)
    /\ UNCHANGED <<v2vars, v1vars, planvars>>
    /\ UNCHANGED <<reports_to_create, batch, next_id, db, submitted, last_call>>
    /\ UNCHANGED <<confvars, reqvars, mainvars, available_slots, download_log, rate_limit_remaining>>
    /\ UNCHANGED pause
    /\ UNCHANGED remotevars
    /\ UNCHANGED <<readyvars, limitvars>>

\* A fallback that creates the report whatever the wait returned.
AfterSingleWait_Ignore(result) == "v1_create_single"

\* if wait_for_report_slots(required_slots=1, ...): create; else: break.
AfterSingleWait(result) == IF result THEN "v1_create_single" ELSE "v1_next"

\* The wait for one slot returned: create batch[i], or break.
V1SingleWaitReturn ==
    /\ pc = "v1_single_wait"
    /\ w_pc = "returned"
    /\ events' = Append(events, WaitEvent("single_wait", batch_num, w_result))
    /\ pc' = AfterSingleWait(w_result)
    /\ w_pc' = "idle"
    /\ UNCHANGED <<required_slots, max_wait, check_interval, slot_waited, w_result,
                   polls, listing_calls>>
    /\ UNCHANGED <<v2vars, v1vars, planvars>>
    /\ UNCHANGED <<reports_to_create, batch, i, next_id, db, submitted, last_call>>
    /\ UNCHANGED <<confvars, reqvars, mainvars, available_slots, download_log, rate_limit_remaining>>
    /\ UNCHANGED pause
    /\ UNCHANGED remotevars
    /\ UNCHANGED <<readyvars, limitvars>>

\* "rate" in str(e).lower() or "limit" in str(e).lower()
IsRateError(outcome) == outcome = "rate"

\* The sleep of the handler of _create_single_report.
Cooldown(outcome) == IF IsRateError(outcome) THEN CreateCooldown ELSE 0

\* _create_single_report: the create call, the ScanReport row and the entry
\* returned (None when the call returns no id or raises).
CreateSingleReport(report_config, outcome) ==
    LET ok == outcome = "id"
    IN  /\ submitted' = Append(submitted,
               CreateCall(report_config, batch_num + 1, IF ok THEN next_id ELSE 0))
        /\ last_call' = Call("create", report_config, outcome, ok)
        /\ events' = Append(events, CreateEvent(batch_num, report_config))
        /\ next_id' = IF ok THEN next_id + 1 ELSE next_id
        /\ running' = IF ok THEN running \cup {next_id} ELSE running
        /\ db' = IF ok THEN Append(db, NewRow) ELSE db
        /\ created_reports' =
               IF ok THEN Append(created_reports,
                                 [report_id |-> next_id, title |-> report_config,
                                  status |-> "created"])
               ELSE created_reports

\* Degraded mode: the create that follows a successful wait for one slot,
\* then the wait for the next report of the batch.
V1CreateSingle ==
    /\ pc = "v1_create_single"
    /\ \E outcome \in CreateOutcomes :
        /\ CreateSingleReport(batch[i], outcome)
        /\ pause' = Cooldown(outcome) + DegradedCreatePause
    /\ IF i < Len(batch)
       THEN /\ i' = i + 1
            /\ pc' = "v1_single_wait"
            /\ StartWait(1, SingleSlotMaxWait, DefaultCheckInterval)
       ELSE /\ pc' = "v1_next"
            /\ UNCHANGED <<i, waitvars>>
    /\ UNCHANGED <<v2vars, batch_size, batch_num, planvars>>
    /\ UNCHANGED <<reports_to_create, batch>>
    /\ UNCHANGED <<confvars, reqvars, mainvars, available_slots, download_log, rate_limit_remaining>>
    /\ UNCHANGED <<foreign, other_pending>>
    /\ UNCHANGED <<readyvars, limitvars>>

\* Normal mode: the creates of the whole batch, one after the other.
V1Create ==
    /\ pc = "v1_create"
    /\ \E outcome \in CreateOutcomes :
        /\ CreateSingleReport(batch[i], outcome)
        /\ pause' = Cooldown(outcome)
                     + (IF i < Len(batch) THEN NormalCreatePause ELSE 0)
    /\ IF i < Len(batch)
       THEN /\ i' = i + 1
            /\ pc' = "v1_create"
       ELSE /\ pc' = "v1_next"
            /\ UNCHANGED i
    /\ UNCHANGED <<v2vars, batch_size, batch_num, planvars, waitvars>>
    /\ UNCHANGED <<reports_to_create, batch>>
    /\ UNCHANGED <<confvars, reqvars, mainvars, available_slots, download_log, rate_limit_remaining>>
    /\ UNCHANGED <<foreign, other_pending>>
    /\ UNCHANGED <<readyvars, limitvars>>

\* The pause between the batches and the next loop index.
V1NextBatch ==
    /\ pc = "v1_next"
    /\ batch_num' = batch_num + 1
    /\ pc' = "v1_loop"
    /\ UNCHANGED <<v2vars, batch_size, created_reports, planvars, waitvars>>
    /\ UNCHANGED <<reports_to_create, batch, i, next_id, db, submitted, last_call,
                   events>>
    /\ UNCHANGED <<confvars, reqvars, mainvars, available_slots, download_log, rate_limit_remaining>>
    /\ pause' = IF batch_num < TotalBatches(Len(reports_to_create), batch_size) - 1
              THEN pause + BatchPause ELSE pause
    /\ UNCHANGED remotevars
    /\ UNCHANGED <<readyvars, limitvars>>

\* ------------------------------------------- main.py: process_network_scans_pdf
\* list(S): the elements of a set in any order.
Orders(S) == {s \in [1..Cardinality(S) -> S] : Range(s) = S}

\* The head of the for loop: the slice of the batch, or the return.
MainStartBatch ==
    /\ pc = "main_loop"
    /\ IF main_i < Len(reports_to_create)
       THEN /\ batch' = MainSlice(reports_to_create, main_i, max_batch_size)
            /\ i' = 1
            /\ created_report_ids' = <<>>
            /\ pc' = "main_create"
       ELSE /\ pc' = "done"
            /\ UNCHANGED <<batch, i, created_report_ids>>
    /\ UNCHANGED <<waitvars, v1vars, planvars, confvars, reqvars, mainvars, events>>
    /\ UNCHANGED <<reports_to_create, remaining_reports, all_processed_reports,
                   batch_number, created_reports_info, completed_reports,
                   failed_reports, waited, sweep, d, final_reports, batch_results,
                   next_id, db, submitted, last_call, available_slots, download_log,
                   rate_limit_remaining>>
    /\ UNCHANGED pause
    /\ UNCHANGED remotevars
    /\ UNCHANGED <<readyvars, limitvars>>

\* One create call of the batch; after the last one, the continue of an empty
\* batch or the call of wait_for_reports_completion up to its while test.
MainCreate ==
    /\ pc = "main_create"
    /\ \E outcome \in CreateOutcomes :
        LET item == batch[i]
            ok == outcome = "id"
            report_ids == IF ok THEN Append(created_report_ids, next_id)
                          ELSE created_report_ids
        IN  /\ submitted' = Append(submitted,
                   CreateCall(item, (main_i \div max_batch_size) + 1,
                              IF ok THEN next_id ELSE 0))
            /\ last_call' = Call("create", item, outcome, ok)
            /\ created_report_ids' = report_ids
            /\ next_id' = IF ok THEN next_id + 1 ELSE next_id
            /\ running' = IF ok THEN running \cup {next_id} ELSE running
            /\ pause' = (IF outcome \in Raises THEN 0 ELSE PauseBetweenReports)
                         + (IF i = Len(batch) /\ report_ids # <<>>
                            THEN StartupWait ELSE 0)
            /\ IF i < Len(batch)
               THEN /\ i' = i + 1
                    /\ pc' = "main_create"
                    /\ UNCHANGED <<main_i, reports_not_finished, completed_reports,
                                   failed_reports, waited>>
               ELSE /\ i' = i
                    /\ IF report_ids = <<>>
                       THEN /\ main_i' = main_i + max_batch_size
                            /\ pc' = "main_loop"
                            /\ UNCHANGED <<reports_not_finished, completed_reports,
                                           failed_reports, waited>>
                       ELSE /\ reports_not_finished' = Range(report_ids)
                            /\ completed_reports' = <<>>
                            /\ failed_reports' = <<>>
                            /\ waited' = 0
                            /\ pc' = "main_wait"
                            /\ UNCHANGED main_i
    /\ UNCHANGED <<waitvars, v1vars, planvars, confvars, reqvars, events>>
    /\ UNCHANGED <<reports_to_create, remaining_reports, all_processed_reports,
                   batch_number, batch, created_reports_info, sweep, d, final_reports,
                   batch_results, db, available_slots, download_log,
                   rate_limit_remaining, successful_downloads>>
    /\ UNCHANGED <<foreign, other_pending>>
    /\ UNCHANGED <<readyvars, limitvars>>

\* wait_for_reports_completion: the while test (waited is its elapsed_time)
\* and the list the sweep iterates over, or the return to the download loop.
MainWaitLoop ==
    /\ pc = "main_wait"
    /\ IF reports_not_finished # {} /\ waited < MonitorMaxWait
       THEN /\ sweep' \in Orders(reports_not_finished)
            /\ pc' = "main_check"
            /\ UNCHANGED d
       ELSE /\ sweep' = <<>>
            /\ d' = 1
            /\ pc' = "main_download"
    /\ UNCHANGED <<waitvars, v1vars, planvars, confvars, reqvars, mainvars, events>>
    /\ UNCHANGED <<reports_to_create, remaining_reports, all_processed_reports,
                   batch_number, batch, i, created_report_ids, created_reports_info,
                   completed_reports, failed_reports, waited, final_reports,
                   batch_results, next_id, db, submitted, last_call, available_slots,
                   download_log, rate_limit_remaining>>
    /\ UNCHANGED pause
    /\ UNCHANGED remotevars
    /\ UNCHANGED <<readyvars, limitvars>>

\* wait_for_reports_completion: one status check of the sweep; after the last
\* one, the sleep.
MainCheck ==
    /\ pc = "main_check"
    /\ \E status \in StatusOutcomes :
        LET report_id == Head(sweep)
            not_finished == IF status = "Finished" \/ IsFailure(status)
                            THEN reports_not_finished \ {report_id}
                            ELSE reports_not_finished
        IN  /\ last_call' = Call("check_status", report_id, status, status # "raise")
            /\ reports_not_finished' = not_finished
            /\ running' = IF status \in TerminalStates
                           THEN running \ {report_id} ELSE running
            /\ completed_reports' = IF status = "Finished"
                                    THEN Append(completed_reports, report_id)
                                    ELSE completed_reports
            /\ failed_reports' = IF IsFailure(status)
                                 THEN Append(failed_reports, report_id)
                                 ELSE failed_reports
            /\ sweep' = Tail(sweep)
            /\ IF Tail(sweep) = <<>>
               THEN /\ pc' = "main_wait"
                    /\ waited' = IF not_finished # {}
                                 THEN waited + MonitorCheckInterval
                                 ELSE waited
                    /\ pause' = IF not_finished # {}
                                THEN pause + MonitorCheckInterval
                                ELSE pause
               ELSE /\ pc' = "main_check"
                    /\ UNCHANGED <<waited, pause>>
    /\ UNCHANGED <<waitvars, v1vars, planvars, confvars, reqvars, events>>
    /\ UNCHANGED <<reports_to_create, remaining_reports, all_processed_reports,
                   batch_number, batch, i, created_report_ids, created_reports_info,
                   d, final_reports, batch_results, next_id, db, submitted,
                   available_slots, download_log, rate_limit_remaining, main_i,
                   successful_downloads>>
    /\ UNCHANGED <<foreign, other_pending>>
    /\ UNCHANGED <<readyvars, limitvars>>

\* for report_id in completed_reports: one download; at the end of the list,
\* the next value of i.
MainDownload ==
    /\ pc = "main_download"
    /\ IF d <= Len(completed_reports)
       THEN \E outcome \in DownloadOutcomes :
              LET report_id == completed_reports[d]
              IN  /\ download_log' = Append(download_log, report_id)
                  /\ last_call' = Call("download", report_id, outcome, outcome = "file")
                  /\ successful_downloads' = IF outcome = "file"
                                             THEN successful_downloads + 1
                                             ELSE successful_downloads
                  /\ d' = d + 1
                  /\ UNCHANGED <<pc, main_i>>
       ELSE /\ main_i' = main_i + max_batch_size
            /\ pc' = "main_loop"
            /\ UNCHANGED <<d, download_log, last_call, successful_downloads>>
    /\ UNCHANGED <<waitvars, v1vars, planvars, confvars, reqvars, events>>
    /\ UNCHANGED <<reports_to_create, remaining_reports, all_processed_reports,
                   batch_number, batch, i, created_report_ids, created_reports_info,
                   completed_reports, failed_reports, waited, sweep, final_reports,
                   batch_results, next_id, db, submitted, available_slots,
                   rate_limit_remaining, reports_not_finished>>
    /\ UNCHANGED pause
    /\ UNCHANGED remotevars
    /\ UNCHANGED <<readyvars, limitvars>>

\* ------------------------------------------------ QualysClient._make_request
\* The seconds slept after a 429 response.
RateLimitSleep == 60

\* What the user types at the prompt, after lower() and strip().
Answers == {"oui", "yes", "y", "o", "non", "n", ""}

\* response in ['oui', 'yes', 'y', 'o']
Accepts(response) == response \in {"oui", "yes", "y", "o"}

\* Header texts are sequences of characters.
DigitChars == <<"0", "1", "2", "3", "4", "5", "6", "7", "8", "9">>

IsDigit(c) == c \in Range(DigitChars)

DigitValue(c) == (CHOOSE k \in 1..Len(DigitChars) : DigitChars[k] = c) - 1

RECURSIVE StripLeft(_)
StripLeft(s) == IF s # <<>> /\ Head(s) = " " THEN StripLeft(Tail(s)) ELSE s

RECURSIVE StripRight(_)
StripRight(s) ==
    IF s # <<>> /\ s[Len(s)] = " " THEN StripRight(SubSeq(s, 1, Len(s) - 1)) ELSE s

RECURSIVE DecimalValue(_)
DecimalValue(s) ==
    IF s = <<>> THEN 0
    ELSE 10 * DecimalValue(SubSeq(s, 1, Len(s) - 1)) + DigitValue(s[Len(s)])

\* int(text): <<n>>, or <<>> for a ValueError.  Surrounding blanks and one
\* sign are accepted, then at least one digit and digits only.
ParseInt(text) ==
    LET u == StripRight(StripLeft(text))
        signed == u # <<>> /\ Head(u) \in {"-", "+"}
        digits == IF signed THEN Tail(u) ELSE u
    IN  IF digits = <<>> \/ \E k \in 1..Len(digits) : ~IsDigit(digits[k])
        THEN <<>>
        ELSE <<(IF signed /\ Head(u) = "-" THEN -1 ELSE 1) * DecimalValue(digits)>>

\* A header of a response: absent, or present with its text.
NoHeader == [present |-> FALSE, text |-> <<>>]

Header(text) == [present |-> TRUE, text |-> text]

\* The X-RateLimit-Remaining and X-RateLimit-Reset headers of a response.
NoHeaders == [remaining |-> NoHeader, reset |-> NoHeader]

\* The state of last_response before the first HTTP attempt.
NoResponse == [status |-> "none", headers |-> NoHeaders]

ResponseHeaders ==
    {NoHeaders,
     [remaining |-> Header(<<"4">>), reset |-> Header(<<"7", "7">>)],
     [remaining |-> Header(<<"5">>), reset |-> NoHeader],
     [remaining |-> Header(<<" ", "9">>), reset |-> Header(<<"s", "o", "o", "n">>)],
     [remaining |-> Header(<<"1", "0">>), reset |-> Header(<<>>)],
     [remaining |-> Header(<<"1", "x">>), reset |-> Header(<<"7", "8">>)]}

\* What one HTTP attempt meets: no response (a RequestException of the
\* transport) or a response with its status.
AttemptOutcomes == {"transport", "200", "401", "429", "500"}

\* An update that forgets the value when the header cannot be parsed.
UpdateRateLimitInfo_ClearsOnError(current, header) ==
    IF header.present THEN ParseInt(header.text) ELSE current

\* _update_rate_limit_info for one of the two headers of a response: the
\* attribute is assigned only when the header is there and int() succeeds.
UpdateRateLimitInfo(current, header) ==
    IF header.present /\ ParseInt(header.text) # <<>>
    THEN ParseInt(header.text)
    ELSE current

\* A client that takes a 401 for any other HTTP error.
IsAuthenticationFailure_Never(status) == FALSE

\* if response.status_code == 401
IsAuthenticationFailure(status) == status = "401"

\* A loop that grants one attempt more.
IsLastAttempt_OneMore(n, retries) == n = retries + 1

\* if attempt == self.config.max_retries, and the end of
\* range(max_retries + 1) for the continue of a 429
IsLastAttempt(n, retries) == n = retries

\* The call up to its first HTTP attempt: _check_rate_limit, with the warning,
\* the prompt and the APIError of a declined prompt.
MakeRequest ==
    /\ r_pc = "idle"
    /\ calls < MaxCalls
    /\ calls' = calls + 1
    /\ http_sent' = 0
    /\ slept' = 0
    /\ attempt' = 0
    /\ warnings' = IF IsLow(rate_limit_remaining) THEN 1 ELSE 0
    /\ prompts' = IF IsCritical(rate_limit_remaining) THEN 1 ELSE 0
    /\ IF IsLow(rate_limit_remaining) /\ IsCritical(rate_limit_remaining)
       THEN \E response \in Answers :
              /\ answer' = response
              /\ IF Accepts(response)
                 THEN r_pc' = "attempt" /\ r_result' = "pending" /\ confirmed' = TRUE
                 ELSE r_pc' = "idle" /\ r_result' = "APIError" /\ UNCHANGED confirmed
       ELSE /\ answer' = "-"
            /\ r_pc' = "attempt"
            /\ r_result' = "pending"
            /\ UNCHANGED confirmed
    /\ rate_info' = <<>>
    /\ UNCHANGED <<max_retries, rate_limit_remaining, rate_limit_reset, last_response>>
    /\ UNCHANGED <<waitvars, v1vars, planvars, confvars, mainvars, v2vars>>
    /\ UNCHANGED <<pc, reports_to_create, batch, i, next_id, db, submitted, last_call,
                   events, available_slots, download_log>>
    /\ UNCHANGED pause
    /\ UNCHANGED remotevars
    /\ UNCHANGED <<readyvars, limitvars>>

\* One iteration of the for loop: the HTTP request, _update_rate_limit_info
\* for a response, then the return, the raise, or the sleep before the next
\* attempt (the APIError after the loop when a 429 met the last attempt).
HttpAttempt ==
    /\ r_pc = "attempt"
    /\ http_sent' = http_sent + 1
    /\ \E outcome \in AttemptOutcomes, headers \in ResponseHeaders :
        /\ outcome = "transport" => headers = NoHeaders
        /\ last_response' = [status |-> outcome, headers |-> headers]
        /\ rate_limit_remaining' =
               IF outcome = "transport" THEN rate_limit_remaining
               ELSE UpdateRateLimitInfo(rate_limit_remaining, headers.remaining)
        /\ rate_limit_reset' =
               IF outcome = "transport" THEN rate_limit_reset
               ELSE UpdateRateLimitInfo(rate_limit_reset, headers.reset)
        /\ confirmed' =
               IF rate_limit_remaining' # rate_limit_remaining
                  \/ (headers.remaining.present /\ ParseInt(headers.remaining.text) # <<>>)
               THEN FALSE ELSE confirmed
        /\ IF outcome # "transport" /\ IsAuthenticationFailure(outcome)
           THEN /\ r_result' = "AuthenticationError"
                /\ r_pc' = "idle"
                /\ UNCHANGED <<attempt, slept>>
           ELSE IF outcome = "429"
           THEN /\ slept' = slept + RateLimitSleep
                /\ IF IsLastAttempt(attempt, max_retries)
                   THEN r_result' = "APIError" /\ r_pc' = "idle" /\ UNCHANGED attempt
                   ELSE attempt' = attempt + 1 /\ UNCHANGED <<r_result, r_pc>>
           ELSE IF outcome = "200"
           THEN /\ r_result' = "response"
                /\ r_pc' = "idle"
                /\ UNCHANGED <<attempt, slept>>
           ELSE IF IsLastAttempt(attempt, max_retries)
                THEN /\ r_result' = "APIError"
                     /\ r_pc' = "idle"
                     /\ UNCHANGED <<attempt, slept>>
                ELSE /\ slept' = slept + 2 ^ attempt
                     /\ attempt' = attempt + 1
                     /\ UNCHANGED <<r_result, r_pc>>
    /\ UNCHANGED <<max_retries, calls, warnings, prompts, answer, rate_info>>
    /\ UNCHANGED <<waitvars, v1vars, planvars, confvars, mainvars, v2vars>>
    /\ UNCHANGED <<pc, reports_to_create, batch, i, next_id, db, submitted, last_call,
                   events, available_slots, download_log>>
    /\ UNCHANGED pause
    /\ UNCHANGED remotevars
    /\ UNCHANGED <<readyvars, limitvars>>

\* get_rate_limit_info(), between two calls of _make_request.
GetRateLimitInfo ==
    /\ r_pc = "idle"
    /\ rate_info' = <<[remaining |-> rate_limit_remaining, reset |-> rate_limit_reset]>>
    /\ rate_info' # rate_info
    /\ UNCHANGED <<r_pc, attempt, max_retries, calls, http_sent, warnings, prompts,
                   answer, r_result, slept, rate_limit_reset, last_response, confirmed,
                   rate_limit_remaining>>
    /\ UNCHANGED <<waitvars, v1vars, planvars, confvars, mainvars, v2vars>>
    /\ UNCHANGED <<pc, reports_to_create, batch, i, next_id, db, submitted, last_call,
                   events, available_slots, download_log>>
    /\ UNCHANGED pause
    /\ UNCHANGED remotevars
    /\ UNCHANGED <<readyvars, limitvars>>

\* ------------------------------------------------------------ the platform
\* The number of jobs in state Running on the subscription.
RunningCount == Cardinality(running) + foreign

\* A job in state Running ends, whoever created it and whether or not a status
\* check sees it later.
JobEnds ==
    /\ \/ \E report_id \in running :
            /\ running' = running \ {report_id}
            /\ UNCHANGED foreign
       \/ /\ foreign > 0
          /\ foreign' = foreign - 1
          /\ UNCHANGED running
    /\ UNCHANGED other_pending
    /\ UNCHANGED <<waitvars, v1vars, planvars, confvars, mainvars, v2vars, reqvars>>
    /\ UNCHANGED <<pc, reports_to_create, batch, i, next_id, db, submitted, last_call,
                   events, available_slots, download_log, rate_limit_remaining, pause>>
    /\ UNCHANGED <<readyvars, limitvars>>

\* The running-jobs query just answered counted the jobs in state Running.
TruthfulCount == last_call.ok => last_call.arg = RunningCount

\* The status check just answered did not report Running for a job that ended.
TruthfulStatus == last_call.res = "Running" => last_call.arg \in running

\* The next remote call of the run is a running-jobs query.  The run learns
\* that a job ended from the answers of the platform only, so an end placed
\* right before the query stands for every earlier moment since the last
\* answer, and never lowers the number of jobs that run in between.
BeforeCountQuery == pc = "v2_loop" \/ w_pc = "polling"

\* A download of the step, if any, returned its file: the outcome of a
\* download has no part in the jobs that run.
DownloadSucceeds == download_log' # download_log => last_call'.ok

\* The requests another client of the subscription wants to create.
OtherRequests == {[k \in 1..n |-> k] : n \in 1..MaxReq}

\* Another run of create_and_wait_reports_batch on the same subscription: its
\* running-jobs query and the size of its batch.
OtherAdmit ==
    /\ other_pending = 0
    /\ RunningCount <= max_running_reports
    /\ \E reports_configs \in OtherRequests :
        LET actual_batch_size ==
                ActualBatchSize(reports_configs, AvailableSlots(RunningCount))
        IN  /\ actual_batch_size > 0
            /\ other_pending' = actual_batch_size
    /\ UNCHANGED <<running, foreign>>
    /\ UNCHANGED <<waitvars, v1vars, planvars, confvars, mainvars, v2vars, reqvars>>
    /\ UNCHANGED <<pc, reports_to_create, batch, i, next_id, db, submitted, last_call,
                   events, available_slots, download_log, rate_limit_remaining, pause>>
    /\ UNCHANGED <<readyvars, limitvars>>

\* One create of the batch of the other run; the job starts to run.
OtherCreate ==
    /\ other_pending > 0
    /\ other_pending' = other_pending - 1
    /\ \E ok \in BOOLEAN : foreign' = IF ok THEN foreign + 1 ELSE foreign
    /\ UNCHANGED running
    /\ UNCHANGED <<waitvars, v1vars, planvars, confvars, mainvars, v2vars, reqvars>>
    /\ UNCHANGED <<pc, reports_to_create, batch, i, next_id, db, submitted, last_call,
                   events, available_slots, download_log, rate_limit_remaining, pause>>
    /\ UNCHANGED <<readyvars, limitvars>>

\* ------------------------------------------------------- specifications
RequestLists == {[k \in 1..n |-> k] : n \in 0..MaxReq}

InitV2Vars ==
    /\ remaining_reports = reports_to_create
    /\ all_processed_reports = <<>>
    /\ batch_number = 1
    /\ created_report_ids = <<>>
    /\ created_reports_info = <<>>
    /\ completed_reports = <<>>
    /\ failed_reports = <<>>
    /\ waited = 0
    /\ sweep = <<>>
    /\ d = 1
    /\ final_reports = <<>>
    /\ batch_results = <<>>

\* The configuration of the scaled-down runs.
InitConf ==
    /\ max_batch_size = MaxBatchSize
    /\ max_running_reports = MaxRunning
    /\ max_iterations = MaxBatches
    /\ faults = FALSE

\* No call of wait_until_ready_and_download is running.
InitReadyIdle ==
    /\ u_pc = "idle"
    /\ u_variant = "service"
    /\ u_max_wait = 0
    /\ u_interval = 1
    /\ u_waited = 0
    /\ u_status = "none"
    /\ u_result = <<>>
    /\ u_polls = 0
    /\ u_downloads = 0

\* No call of create_reports_with_limit is running.
InitLimitIdle ==
    /\ l_pc = "idle"
    /\ l_items = <<>>
    /\ l_k = 1
    /\ l_batch = <<>>
    /\ l_all_reports = <<>>
    /\ l_finished = {}
    /\ l_sweep = 1

InitLocal ==
    /\ running = {}
    /\ other_pending = 0
    /\ pause = 0
    /\ available_slots = 0
    /\ download_log = <<>>
    /\ rate_limit_remaining = <<>>
    /\ batch = <<>>
    /\ i = 1
    /\ next_id = 1
    /\ db = <<>>
    /\ submitted = <<>>
    /\ last_call = NoCall
    /\ events = <<>>

\* No job of another origin runs on the platform.
InitRun == InitLocal /\ foreign = 0

InitWaitIdle ==
    /\ w_pc = "idle"
    /\ required_slots = 1
    /\ max_wait = 0
    /\ check_interval = 1
    /\ slot_waited = 0
    /\ w_result = FALSE
    /\ polls = 0
    /\ listing_calls = 0

InitV1Idle ==
    /\ batch_size = 1
    /\ batch_num = 0
    /\ created_reports = <<>>

InitMainIdle ==
    /\ main_i = 0
    /\ reports_not_finished = {}
    /\ successful_downloads = 0

InitRequestIdle ==
    /\ r_pc = "idle"
    /\ attempt = 0
    /\ max_retries = 0
    /\ calls = 0
    /\ http_sent = 0
    /\ warnings = 0
    /\ prompts = 0
    /\ answer = "-"
    /\ r_result = "pending"
    /\ slept = 0
    /\ rate_limit_reset = <<>>
    /\ last_response = NoResponse
    /\ confirmed = FALSE
    /\ rate_info = <<>>

InitPlanIdle ==
    /\ plan_variant = "service"
    /\ plan_data = <<>>
    /\ plan_b = 1
    /\ plan_i = 0
    /\ plan_slices = <<>>
    /\ plan_pc = "done"

\* create_reports_with_smart_batching_v2(reports_to_create); an empty list
\* returns [] at once.
Init ==
    /\ reports_to_create \in RequestLists
    /\ pc = IF reports_to_create = <<>> THEN "done" ELSE "v2_loop"
    /\ InitV2Vars
    /\ InitConf
    /\ InitMainIdle
    /\ InitRequestIdle
    /\ InitRun
    /\ InitReadyIdle
    /\ InitLimitIdle
    /\ InitWaitIdle
    /\ InitV1Idle
    /\ InitPlanIdle

Next ==
    \/ BatchAdmit
    \/ CreateReport
    \/ MonitorLoop
    \/ CheckStatus
    \/ DownloadStep
    \/ V2AfterBatch

Spec == Init /\ [][Next]_vars

\* wait_for_report_slots(required_slots, max_wait, check_interval) on its own.
InitWait ==
    /\ pc = "wait_only"
    /\ reports_to_create = <<>>
    /\ InitV2Vars
    /\ InitConf
    /\ InitMainIdle
    /\ InitRequestIdle
    /\ InitRun
    /\ InitReadyIdle
    /\ InitLimitIdle
    /\ InitV1Idle
    /\ InitPlanIdle
    /\ required_slots \in 1..MaxRequired
    /\ max_wait \in 0..MaxSlotWait
    /\ check_interval \in 1..MaxSlotInterval
    /\ slot_waited = 0
    /\ polls = 0
    /\ listing_calls = 0
    /\ w_pc = IF WaitContinues(0, max_wait) THEN "polling" ELSE "returned"
    /\ w_result = FALSE

NextWait ==
    \/ WaitPoll
    \/ WaitListing

SpecWait == InitWait /\ [][NextWait]_vars

\* create_reports_with_smart_batching(reports_to_create, batch_size); an
\* empty list returns [] at once.
InitV1 ==
    /\ reports_to_create \in RequestLists
    /\ pc = IF reports_to_create = <<>> THEN "done" ELSE "v1_loop"
    /\ InitV2Vars
    /\ InitConf
    /\ InitMainIdle
    /\ InitRequestIdle
    /\ InitRun
    /\ InitReadyIdle
    /\ InitLimitIdle
    /\ InitWaitIdle
    /\ InitPlanIdle
    /\ batch_size \in 1..MaxBatchSize
    /\ batch_num = 0
    /\ created_reports = <<>>

NextV1 ==
    \/ V1StartBatch
    \/ WaitPoll
    \/ WaitListing
    \/ V1BatchWaitReturn
    \/ V1SingleWaitReturn
    \/ V1CreateSingle
    \/ V1Create
    \/ V1NextBatch

SpecV1 == InitV1 /\ [][NextV1]_vars

\* The two slicing loops on their own.
InitPlan ==
    /\ pc = "plan_only"
    /\ reports_to_create = <<>>
    /\ InitV2Vars
    /\ InitConf
    /\ InitMainIdle
    /\ InitRequestIdle
    /\ InitRun
    /\ InitReadyIdle
    /\ InitLimitIdle
    /\ InitWaitIdle
    /\ InitV1Idle
    /\ plan_variant \in {"service", "main"}
    /\ plan_data \in {[k \in 1..n |-> k] : n \in 0..MaxPlanLen}
    /\ plan_b \in 1..MaxPlanBatch
    /\ plan_i = 0
    /\ plan_slices = <<>>
    /\ plan_pc = "loop"

NextPlan ==
    \/ PlanServiceStep
    \/ PlanMainStep

SpecPlan == InitPlan /\ [][NextPlan]_vars

\* One call of create_and_wait_reports_batch, within one iteration of the v2
\* loop, for every request list.
InitBatch ==
    /\ reports_to_create \in RequestLists \ {<<>>}
    /\ pc = "v2_loop"
    /\ InitV2Vars
    /\ max_batch_size = MaxBatchSize
    /\ max_running_reports = MaxRunning
    /\ max_iterations = 1
    /\ faults = FALSE
    /\ InitMainIdle
    /\ InitRequestIdle
    /\ InitRun
    /\ InitReadyIdle
    /\ InitLimitIdle
    /\ InitWaitIdle
    /\ InitV1Idle
    /\ InitPlanIdle

SpecBatch == InitBatch /\ [][Next]_vars

\* process_network_scans_pdf(data) with data = reports_to_create.
InitMain ==
    /\ reports_to_create \in RequestLists
    /\ pc = "main_loop"
    /\ InitV2Vars
    /\ InitConf
    /\ InitMainIdle
    /\ InitRequestIdle
    /\ InitRun
    /\ InitReadyIdle
    /\ InitLimitIdle
    /\ InitWaitIdle
    /\ InitV1Idle
    /\ InitPlanIdle

NextMain ==
    \/ MainStartBatch
    \/ MainCreate
    \/ MainWaitLoop
    \/ MainCheck
    \/ MainDownload

\* The two orchestrators that create, poll and download: one batch of
\* create_and_wait_reports_batch, and process_network_scans_pdf.
InitPoll == InitBatch \/ InitMain

NextPoll == Next \/ NextMain

SpecPoll == InitPoll /\ [][NextPoll]_vars

\* One run of create_reports_with_smart_batching_v2 or of
\* create_reports_with_smart_batching as the only client of the subscription:
\* at most max_running_reports jobs run at the start, the running-jobs query
\* counts the jobs that run, and a job runs from its creation to its end.
InitSolo ==
    /\ reports_to_create \in RequestLists \ {<<>>}
    /\ \/ pc = "v2_loop" /\ InitV1Idle
       \/ /\ pc = "v1_loop"
          /\ batch_size \in 1..MaxBatchSize
          /\ batch_num = 0
          /\ created_reports = <<>>
    /\ InitV2Vars
    /\ InitConf
    /\ InitMainIdle
    /\ InitRequestIdle
    /\ InitLocal
    /\ InitReadyIdle
    /\ InitLimitIdle
    /\ InitWaitIdle
    /\ InitPlanIdle
    /\ foreign \in 0..max_running_reports

NextSolo ==
    \/ BatchAdmit /\ TruthfulCount'
    \/ CreateReport
    \/ MonitorLoop
    \/ CheckStatus /\ TruthfulStatus'
    \/ DownloadStep /\ DownloadSucceeds
    \/ V2AfterBatch
    \/ V1StartBatch
    \/ WaitPoll /\ TruthfulCount'
    \/ WaitListing
    \/ V1BatchWaitReturn
    \/ V1SingleWaitReturn
    \/ V1CreateSingle
    \/ V1Create
    \/ V1NextBatch
    \/ JobEnds /\ BeforeCountQuery

SpecSolo == InitSolo /\ [][NextSolo]_vars

\* One batch of create_and_wait_reports_batch while another run works on the
\* same subscription.
InitRace ==
    /\ reports_to_create \in RequestLists \ {<<>>}
    /\ pc = "v2_loop"
    /\ InitV2Vars
    /\ max_batch_size = MaxBatchSize
    /\ max_running_reports = MaxRunning
    /\ max_iterations = 1
    /\ faults = FALSE
    /\ InitMainIdle
    /\ InitRequestIdle
    /\ InitLocal
    /\ InitReadyIdle
    /\ InitLimitIdle
    /\ InitWaitIdle
    /\ InitV1Idle
    /\ InitPlanIdle
    /\ foreign \in 0..max_running_reports

NextRace ==
    \/ BatchAdmit /\ TruthfulCount'
    \/ CreateReport
    \/ MonitorLoop
    \/ CheckStatus /\ TruthfulStatus'
    \/ DownloadStep
    \/ V2AfterBatch
    \/ JobEnds
    \/ OtherAdmit
    \/ OtherCreate

SpecRace == InitRace /\ [][NextRace]_vars

\* The default configuration: creation_controls['batch_size'] and
\* max_running_reports.
DefaultBatchSize == 4
DefaultMaxRunning == 8

\* A run in which nothing fails: every call succeeds, every running-jobs
\* query leaves enough free slots for the next batch and every status check
\* returns Finished.
AllSucceed ==
    /\ last_call.ok
    /\ last_call.op = "check_status" => last_call.res = "Finished"
    /\ last_call.op = "count" =>
           available_slots >= Min(Len(remaining_reports), max_batch_size)

\* create_reports_with_smart_batching_v2 under the default configuration,
\* for lists of up to ScenarioRequests requests, when nothing fails.
InitScenario ==
    /\ reports_to_create \in {[k \in 1..n |-> k] : n \in 1..ScenarioRequests}
    /\ pc = "v2_loop"
    /\ InitV2Vars
    /\ max_batch_size = DefaultBatchSize
    /\ max_running_reports = DefaultMaxRunning
    /\ max_iterations = Len(reports_to_create)
    /\ faults = FALSE
    /\ InitMainIdle
    /\ InitRequestIdle
    /\ InitRun
    /\ InitReadyIdle
    /\ InitLimitIdle
    /\ InitWaitIdle
    /\ InitV1Idle
    /\ InitPlanIdle

NextScenario ==
    \/ BatchAdmit /\ AllSucceed'
    \/ CreateReport /\ AllSucceed'
    \/ MonitorLoop /\ AllSucceed'
    \/ CheckStatus /\ AllSucceed'
    \/ DownloadStep /\ AllSucceed'
    \/ V2AfterBatch /\ AllSucceed'

SpecScenario == InitScenario /\ [][NextScenario]_vars

\* create_reports_with_smart_batching_v2 in the runs where a call may also
\* end in an AuthenticationError or, once the remaining quota seen is below
\* the critical mark, in the APIError of a declined prompt.
InitFaults ==
    /\ reports_to_create \in RequestLists \ {<<>>}
    /\ pc = "v2_loop"
    /\ InitV2Vars
    /\ max_batch_size = MaxBatchSize
    /\ max_running_reports = MaxRunning
    /\ max_iterations = MaxBatches
    /\ faults = TRUE
    /\ InitMainIdle
    /\ InitRequestIdle
    /\ InitRun
    /\ InitReadyIdle
    /\ InitLimitIdle
    /\ InitWaitIdle
    /\ InitV1Idle
    /\ InitPlanIdle

SpecFaults == InitFaults /\ [][Next]_vars

\* A client that serves up to MaxCalls calls of _make_request, one after the
\* other, from its construction on.
InitRequest ==
    /\ pc = "request_only"
    /\ reports_to_create = <<>>
    /\ InitV2Vars
    /\ InitConf
    /\ InitMainIdle
    /\ InitRun
    /\ InitReadyIdle
    /\ InitLimitIdle
    /\ InitWaitIdle
    /\ InitV1Idle
    /\ InitPlanIdle
    /\ r_pc = "idle"
    /\ attempt = 0
    /\ max_retries \in 0..MaxRetries
    /\ calls = 0
    /\ http_sent = 0
    /\ warnings = 0
    /\ prompts = 0
    /\ answer = "-"
    /\ r_result = "pending"
    /\ slept = 0
    /\ rate_limit_reset = <<>>
    /\ last_response = NoResponse
    /\ confirmed = FALSE
    /\ rate_info = <<>>

NextRequest ==
    \/ MakeRequest
    \/ HttpAttempt
    \/ GetRateLimitInfo

SpecRequest == InitRequest /\ [][NextRequest]_vars

\* ------------------------------------------------------------------ claims
\* The statuses create_and_wait_reports_batch gives a returned entry.
FinalStatuses == {"downloaded", "download_failed", "download_error", "timeout"}

\* The positions of all_processed_reports that are entries of request r.
EntriesOf(r) ==
    {k \in 1..Len(all_processed_reports) : all_processed_reports[k].config = r}

\* C1: when create_reports_with_smart_batching_v2 returns, its result holds
\* exactly one entry for every request of the list it was given (also for a
\* request whose creation failed or that was never attempted), and every
\* entry carries one final status.
C1_EveryRequestExactlyOnce ==
    pc = "done" =>
        /\ \A r \in Range(reports_to_create) : Cardinality(EntriesOf(r)) = 1
        /\ Len(all_processed_reports) = Len(reports_to_create)
        /\ \A k \in 1..Len(all_processed_reports) :
               all_processed_reports[k].status \in FinalStatuses

\* The requests passed to the create operation so far, in order.
SubmittedRequests == [k \in 1..Len(submitted) |-> submitted[k].req]

\* C2: in one run of create_reports_with_smart_batching_v2 the requests
\* passed to the create operation, in order, are a prefix of the request list
\* (none twice, none skipped) and are the whole list when the run returns.
C2_CreatesFollowTheList ==
    /\ SubmittedRequests = TakeFirst(reports_to_create, Len(submitted))
    /\ Len(submitted) <= Len(reports_to_create)
    /\ pc = "done" => SubmittedRequests = reports_to_create

\* The state of the job with report id `id`, as the orchestrator holds it: the
\* status of its entry once phase 3 has set it, before that what the polling
\* sweeps recorded (the ScanReport row for Error / Cancelled, the completed
\* list for Finished).
JobState(id) ==
    LET entries == all_processed_reports \o created_reports_info
        entry == entries[CHOOSE k \in 1..Len(entries) : entries[k].report_id = id]
    IN  CASE entry.status = "downloaded" -> "Downloaded"
          [] entry.status \in {"download_failed", "download_error"} -> "DownloadFailed"
          [] entry.status = "timeout" -> "TimedOut"
          [] OTHER -> IF db[id].status = "error" THEN "Error"
                      ELSE IF id \in Range(completed_reports) THEN "Finished"
                      ELSE "Created"

\* Error stands for Error and Cancelled, which the code records alike.
ForwardStep(s, t) ==
    \/ s = "Created" /\ t \in {"Finished", "Error", "TimedOut"}
    \/ s = "Finished" /\ t \in {"Downloaded", "DownloadFailed"}

\* C4: a job's state only moves forward along Created -> (Finished | Error |
\* Cancelled | TimedOut) -> (Downloaded | DownloadFailed): a status check is
\* issued only for a job that is still Created, and a job that is Error,
\* Cancelled, TimedOut, DownloadFailed or Downloaded never changes state.
C4_StatesOnlyMoveForward ==
    [][/\ pc = "check" => JobState(Head(sweep)) = "Created"
       /\ \A id \in 1..Len(db) :
              JobState(id)' # JobState(id) => ForwardStep(JobState(id), JobState(id)')
      ]_vars

\* C5: every iteration of the while loop of
\* create_reports_with_smart_batching_v2 strictly shrinks the remaining list,
\* whatever the slot count and the create outcomes of its batch, so that the
\* loop ends after at most len(reports_to_create) iterations.
C5_EveryIterationShrinks ==
    [][pc = "v2_after" => Len(remaining_reports') < Len(remaining_reports)]_vars

\* C8: when the running-jobs query fails, admission goes on as if every slot
\* were free: the batch is cut for max_running_reports available slots and
\* its creation starts; the failure does not leave the orchestrator.
C8_SlotQueryFailsOpen ==
    (last_call.op = "count" /\ ~last_call.ok) =>
        /\ pc = "create"
        /\ Len(batch) = ActualBatchSize(remaining_reports, max_running_reports)

\* The request that report id `id` was created for.
RequestOf(id) ==
    submitted[CHOOSE k \in 1..Len(submitted) : submitted[k].id = id].req

\* C10: a creation failure is terminal for its request and for it only: the
\* creates of a batch all take place whatever their outcomes, no status check
\* and no download is ever issued for a request whose creation failed, and a
\* status check is issued only for an id a create of the same batch returned.
C10_CreationFailureIsTerminal ==
    /\ pc \in {"monitor", "check", "download"} =>
           Len(SelectSeq(submitted, LAMBDA c : c.batch = batch_number)) = Len(batch)
    /\ last_call.op \in {"check_status", "download"} =>
           \E k \in 1..Len(submitted) :
               /\ submitted[k].id = last_call.arg
               /\ pc \in {"monitor", "check", "download"} =>
                      submitted[k].batch = batch_number
    /\ \A k \in 1..Len(submitted) :
           submitted[k].id = 0 =>
               (last_call.op \in {"check_status", "download"} =>
                    RequestOf(last_call.arg) # submitted[k].req)

\* The concatenation of a sequence of sequences.
RECURSIVE Concat(_)
Concat(ss) == IF ss = <<>> THEN <<>> ELSE Head(ss) \o Concat(Tail(ss))

\* ceil(n / b) for n >= 0 and b >= 1.
CeilDiv(n, b) == CHOOSE q \in 0..n : q * b >= n /\ (q = 0 \/ (q - 1) * b < n)

\* C3: for every list and batch size b >= 1 the index-based slicing of
\* create_reports_with_smart_batching and of process_network_scans_pdf takes
\* ceil(len / b) slices whose concatenation is the list in order; no slice is
\* empty or longer than b and only the last one may be shorter than b.
C3_SlicesPartitionTheList ==
    /\ Concat(plan_slices) = TakeFirst(plan_data, Len(Concat(plan_slices)))
    /\ \A k \in 1..Len(plan_slices) :
           /\ Len(plan_slices[k]) \in 1..plan_b
           /\ Len(plan_slices[k]) < plan_b =>
                  k = Len(plan_slices) /\ Concat(plan_slices) = plan_data
    /\ plan_pc = "done" =>
           /\ Concat(plan_slices) = plan_data
           /\ Len(plan_slices) = CeilDiv(Len(plan_data), plan_b)

\* A list cut into three slices, the last one shorter than the batch size.
C3_Witness ==
    /\ plan_pc = "done"
    /\ Len(plan_slices) = 3
    /\ Len(plan_slices[3]) < plan_b

\* C6: a wait_for_report_slots call that does not see enough slots returns
\* False after exactly ceil(max_wait / check_interval) polls, with a waited
\* time in [max_wait, max_wait + check_interval); no call polls more often
\* than that or stops before it returned, also when the queries raise.
C6_WaitGivesUpInTime ==
    /\ polls <= CeilDiv(max_wait, check_interval)
    /\ w_pc \in {"polling", "listing"} => slot_waited < max_wait /\ ENABLED NextWait
    /\ (w_pc = "returned" /\ ~w_result) =>
           /\ polls = CeilDiv(max_wait, check_interval)
           /\ slot_waited = polls * check_interval
           /\ max_wait <= slot_waited
           /\ slot_waited < max_wait + check_interval

\* A call that gave up after several polls, the last of which raised, with a
\* waited time strictly above max_wait.
C6_Witness ==
    /\ w_pc = "returned"
    /\ ~w_result
    /\ polls >= 2
    /\ slot_waited > max_wait
    /\ last_call.op = "count"
    /\ ~last_call.ok

\* The last remote call was a running-jobs query that showed enough slots.
LastPollFits ==
    /\ last_call.op = "count"
    /\ last_call.ok
    /\ max_running_reports - last_call.arg >= required_slots

\* C7: wait_for_report_slots returns True exactly at the first poll whose
\* count leaves max_running_reports - runningCount >= required_slots; until
\* then it keeps polling, and it returns False only once max_wait has elapsed.
C7_TrueAtFirstFittingPoll ==
    /\ w_result => w_pc = "returned" /\ LastPollFits
    /\ LastPollFits => w_pc = "returned" /\ w_result
    /\ (w_pc = "returned" /\ ~w_result) => slot_waited >= max_wait
    /\ w_result => slot_waited = (polls - 1) * check_interval

\* A call for one slot that first saw every slot taken (it listed the running
\* jobs) and returned True at a later poll.
C7_Witness ==
    /\ w_pc = "returned"
    /\ w_result
    /\ required_slots = 1
    /\ polls >= 2
    /\ listing_calls = 1

\* The wait for the whole batch `num` returned False.
Degraded(num) ==
    \E k \in 1..Len(events) :
        /\ events[k].kind = "batch_wait"
        /\ events[k].batch = num
        /\ ~events[k].result

\* C9: when the wait for the whole batch fails, the batch is admitted one
\* report at a time: the failed wait is followed by a wait for one slot for the
\* same batch, every create of that batch comes right after a wait for one
\* slot that returned True (its last poll being the last remote call), and
\* after a wait for one slot that returned False the batch gets no further
\* create and no further wait.
C9_DegradedAdmission ==
    /\ \A k \in 1..Len(events) :
           /\ (events[k].kind = "batch_wait" /\ ~events[k].result /\ k < Len(events)) =>
                  /\ events[k + 1].kind = "single_wait"
                  /\ events[k + 1].batch = events[k].batch
           /\ (events[k].kind = "create" /\ Degraded(events[k].batch)) =>
                  events[k - 1] = WaitEvent("single_wait", events[k].batch, TRUE)
           /\ (events[k].kind = "single_wait" /\ ~events[k].result) =>
                  \A m \in (k + 1)..Len(events) : events[m].batch # events[k].batch
    /\ pc = "v1_create_single" =>
           /\ Degraded(batch_num)
           /\ required_slots = 1
           /\ LastPollFits

\* A batch of two whose wait failed: one report was created after a wait for
\* one slot, then the next wait for one slot failed and the batch was left.
C9_Witness ==
    \E k \in 1..Len(events) :
        /\ k + 3 <= Len(events)
        /\ events[k].kind = "batch_wait" /\ ~events[k].result
        /\ events[k + 1] = WaitEvent("single_wait", events[k].batch, TRUE)
        /\ events[k + 2].kind = "create"
        /\ events[k + 3] = WaitEvent("single_wait", events[k].batch, FALSE)

\* The positions at which the next step is a status check.
CheckPcs == {"check", "main_check"}

\* The jobs a polling loop still holds active: reports_not_finished in
\* wait_for_reports_completion, the ids in neither list in
\* monitor_reports_until_completion.
ActiveJobs ==
    IF pc \in {"main_wait", "main_check", "main_download"}
    THEN reports_not_finished
    ELSE Range(created_report_ids) \ (Range(completed_reports) \cup Range(failed_reports))

\* C11: in both polling loops a status check that raises or returns no state
\* changes neither list nor the ScanReport row and leaves the job active; a
\* job enters failed_reports exactly when its check returned Error or
\* Cancelled; and every sweep that starts checks all the jobs still active,
\* the one whose check failed included.
C11_FailedCheckKeepsJobActive ==
    [][/\ pc \in CheckPcs =>
              LET report_id == Head(sweep)
                  res == last_call'.res
              IN  /\ res \in {"raise", "none"} =>
                         /\ completed_reports' = completed_reports
                         /\ failed_reports' = failed_reports
                         /\ db' = db
                         /\ report_id \in ActiveJobs'
                  /\ report_id \in Range(failed_reports') <=>
                         res \in {"Error", "Cancelled"}
       /\ (pc \in {"monitor", "main_wait"} /\ pc' \in CheckPcs) =>
              Range(sweep') = ActiveJobs
      ]_vars

\* A later sweep is about to check again the job whose last check raised or
\* returned no state.
C11_Witness ==
    /\ pc \in CheckPcs
    /\ waited > 0
    /\ last_call.op = "check_status"
    /\ last_call.res \in {"raise", "none"}
    /\ last_call.arg = Head(sweep)

\* The statuses an entry gets from its download call.
DownloadStatuses == {"downloaded", "download_failed", "download_error"}

\* The batch is in its download loop or has just returned a non-empty result.
BatchResultPcs == {"download", "v2_after"}

\* C12: when the monitored jobs of a batch reach the download loop, a job that
\* was never seen Finished, Error or Cancelled was active up to the deadline
\* and gets the status timeout, and this changes nothing for the others:
\* every job seen Finished gets its download call and one of the download
\* statuses, and the returned list has one entry per created job.
C12_SlowJobTimesOutAlone ==
    /\ pc \in BatchResultPcs =>
           \A k \in 1..Len(final_reports) :
               LET entry == final_reports[k]
                   report_id == entry.report_id
               IN  /\ entry = created_reports_info[k]
                   /\ report_id \in ActiveJobs =>
                          /\ entry.status = "timeout"
                          /\ waited >= MonitorMaxWait
                   /\ report_id \in Range(completed_reports) =>
                          /\ entry.status \in DownloadStatuses
                          /\ report_id \in Range(download_log)
    /\ (pc = "v2_after" /\ batch_results # <<>>) =>
           /\ batch_results = final_reports
           /\ [k \in 1..Len(batch_results) |-> batch_results[k].report_id]
                  = created_report_ids

\* A batch returned with a job that stayed active until the deadline, timed
\* out, next to a job that was seen Finished and was downloaded.
C12_Witness ==
    /\ pc = "v2_after"
    /\ \E j, k \in 1..Len(batch_results) :
           /\ batch_results[j].status = "timeout"
           /\ batch_results[j].report_id \in ActiveJobs
           /\ batch_results[k].status = "downloaded"

\* C13: an entry of the batch result has the status timeout only if its job
\* was still active (neither Finished nor Error nor Cancelled) when the
\* monitoring ended at the deadline; a job seen Error or Cancelled is
\* returned with the remote-failure status error (the one the summary of the
\* v2 loop counts), never with timeout.
C13_TimedOutOnlyIfActiveAtDeadline ==
    pc \in BatchResultPcs =>
        \A k \in 1..Len(final_reports) :
            LET entry == final_reports[k]
            IN  /\ entry.status = "timeout" =>
                       /\ entry.report_id \in ActiveJobs
                       /\ waited >= MonitorMaxWait
                /\ entry.report_id \in Range(failed_reports) =>
                       entry.status = "error"

\* The positions of the two download loops.
DownloadPcs == {"download", "main_download"}

\* C14: in create_and_wait_reports_batch and in process_network_scans_pdf a
\* job is recorded completed exactly when one of its status checks returned
\* Finished; every download call is for a job recorded completed in the
\* running batch that had no download call before; and when the download
\* loop ends every completed job has had its call.  So a job that timed out,
\* was seen Error or Cancelled, or was never created gets no download call.
C14_DownloadIffFinished ==
    [][/\ pc \in CheckPcs =>
              (Head(sweep) \in Range(completed_reports') <=> last_call'.res = "Finished")
       /\ download_log' # download_log =>
              /\ pc \in DownloadPcs
              /\ \E report_id \in Range(completed_reports) \ Range(download_log) :
                     download_log' = Append(download_log, report_id)
       /\ (pc \in DownloadPcs /\ pc' \notin DownloadPcs) =>
              Range(completed_reports) \subseteq Range(download_log')
      ]_vars

\* A batch returned after one download call, with another job that was seen
\* Error or Cancelled or timed out and got none.
C14_Witness ==
    /\ pc = "v2_after"
    /\ Len(download_log) = 1
    /\ Len(created_report_ids) = 2
    /\ Len(batch_results) = 2

\* C15: every download call of the batch gives its job the status downloaded
\* when it returned a file path and the one status download_failed when it
\* failed, by returning nothing or by raising; and after a failed download
\* the loop goes on with the next created report.
C15_OneStatusForAFailedDownload ==
    [][(pc = "download" /\ download_log' # download_log) =>
           LET entry == final_reports'[Len(final_reports')]
           IN  /\ entry.report_id = last_call'.arg
               /\ entry.status = IF last_call'.res = "file" THEN "downloaded"
                                 ELSE "download_failed"
               /\ d < Len(created_reports_info) => (pc' = "download" /\ d' = d + 1)
      ]_vars

\* The number of create calls issued in iteration j of the v2 loop.
CreatesOfBatch(j) == Cardinality({k \in 1..Len(submitted) : submitted[k].batch = j})

\* C16: with the default batch size and slot cap, enough free slots and no
\* failure, a run over n requests takes ceil(n / batch size) batches, each
\* full except the last, and returns n entries, all downloaded, in the order
\* of the requests; for 10 requests these are 3 batches of 4, 4 and 2.
C16_TenRequestsInThreeBatches ==
    pc = "done" =>
        LET n == Len(reports_to_create)
            total == CeilDiv(n, max_batch_size)
        IN  /\ batch_number = total + 1
            /\ \A j \in 1..total :
                   CreatesOfBatch(j) = Min(max_batch_size, n - (j - 1) * max_batch_size)
            /\ Len(submitted) = n
            /\ Len(all_processed_reports) = n
            /\ \A k \in 1..n :
                   /\ all_processed_reports[k].config = reports_to_create[k]
                   /\ all_processed_reports[k].status = "downloaded"
            /\ n = 10 =>
                   <<CreatesOfBatch(1), CreatesOfBatch(2), CreatesOfBatch(3)>> = <<4, 4, 2>>

\* The run over 10 requests returned after its third batch.
C16_Witness ==
    /\ pc = "done"
    /\ Len(reports_to_create) = 10
    /\ max_batch_size = 4
    /\ batch_number = 4
    /\ Len(all_processed_reports) = 10

\* C17: when the remaining quota seen is below the critical mark and the user
\* declines at the prompt, the run stops there with the error of the declined
\* call: the position after a declined call is the one of a run that raised
\* to its caller, and no remote call follows it.
C17_DeclinedPromptStopsTheRun ==
    last_call.res = "declined" =>
        /\ IsCritical(rate_limit_remaining)
        /\ pc = "raised"

\* C19: an AuthenticationError raised by a remote call ends the whole run:
\* after it the run has raised to its caller and issues no further call,
\* whichever call (running-jobs query, create, status check, download) met it.
C19_AuthenticationErrorEndsTheRun ==
    [][last_call.res = "auth" => (pc = "raised" /\ last_call' = last_call)]_vars

\* C18: a call of _make_request starts with the quota check, which leaves
\* rate_limit_remaining alone: with the remaining quota unknown or at least
\* 10 the call goes on to its HTTP request without warning or prompt; below
\* 10 it prints the warning; below 5 it also prompts, goes on only for an
\* accepting answer, and otherwise raises APIError before any HTTP request.
C18_QuotaCheckBeforeRequest ==
    [][(r_pc = "idle" /\ calls' = calls + 1) =>
           LET known == rate_limit_remaining # <<>>
               rem == IF known THEN rate_limit_remaining[1] ELSE 0
           IN  /\ rate_limit_remaining' = rate_limit_remaining
               /\ http_sent' = 0
               /\ (~known \/ rem >= 10) =>
                      (warnings' = 0 /\ prompts' = 0 /\ r_pc' = "attempt")
               /\ (known /\ rem < 10) => warnings' = 1
               /\ (known /\ rem >= 5 /\ rem < 10) => (prompts' = 0 /\ r_pc' = "attempt")
               /\ (known /\ rem < 5) =>
                      /\ prompts' = 1
                      /\ IF answer' \in {"oui", "yes", "y", "o"}
                         THEN r_pc' = "attempt"
                         ELSE r_pc' = "idle" /\ r_result' = "APIError"
      ]_vars

\* A call made with 4 requests remaining was declined at the prompt and
\* raised without sending a request.
C18_Witness ==
    /\ r_pc = "idle"
    /\ rate_limit_remaining = <<4>>
    /\ prompts = 1
    /\ ~Accepts(answer)
    /\ r_result = "APIError"
    /\ http_sent = 0

\* The positions inside one call of create_and_wait_reports_batch, up to the
\* point where the v2 loop consumes its result.
InBatchPcs == {"create", "monitor", "check", "download", "v2_after"}

\* C20: every batch starts with its own running-jobs query, from which
\* available_slots = max_running_reports - runningCount is computed; the
\* create calls of the batch are issued one at a time after it and number at
\* most min(remaining, max_batch_size, available_slots), none at all when
\* that bound is zero or negative.
C20_CreatesBoundedByFreshSlots ==
    /\ [](pc \in InBatchPcs =>
              LET bound == Min(Min(Len(remaining_reports), max_batch_size),
                               available_slots)
              IN  CreatesOfBatch(batch_number) <= (IF bound <= 0 THEN 0 ELSE bound))
    /\ [][/\ (pc = "v2_loop" /\ pc' # "v2_loop") =>
                 /\ last_call'.op = "count"
                 /\ CreatesOfBatch(batch_number)' = 0
                 /\ IF last_call'.ok
                    THEN available_slots' = max_running_reports - last_call'.arg
                    ELSE pc' = "raised"
          /\ submitted' # submitted =>
                 /\ pc = "create"
                 /\ last_call'.op = "create"
                 /\ submitted' = Append(submitted, submitted'[Len(submitted')])
                 /\ submitted'[Len(submitted')].batch = batch_number
                 /\ available_slots' = available_slots
         ]_vars

\* The second batch found one free slot where the first had found two, and
\* issued one create call for its two remaining requests.
C20_Witness ==
    /\ pc = "monitor"
    /\ batch_number = 2
    /\ CreatesOfBatch(1) = 2
    /\ CreatesOfBatch(2) = 1
    /\ available_slots = 1
    /\ Len(remaining_reports) = 2

\* The two counts of the final summary of create_reports_with_smart_batching_v2.
CountStatus(statuses) ==
    Cardinality({k \in 1..Len(all_processed_reports) :
                     all_processed_reports[k].status \in statuses})

successful == CountStatus({"downloaded"})

failed == CountStatus({"error", "timeout", "download_failed"})

\* C21: when create_reports_with_smart_batching_v2 returns, its summary
\* counts every request of the list exactly once: the returned entries are
\* each counted as successful or as failed, and together with the requests
\* that have no entry (not attempted) the counts add up to the length of
\* the list.
C21_SummaryCountsAddUp ==
    pc = "done" =>
        LET total_reports == Len(reports_to_create)
            not_attempted == total_reports - Len(all_processed_reports)
        IN  /\ successful + failed = Len(all_processed_reports)
            /\ not_attempted >= 0
            /\ successful + failed + not_attempted = total_reports

\* The positions at which the next step is a create call of ReportService.
ServiceCreatePcs == {"create", "v1_create", "v1_create_single"}

\* C22: in the creation loops of ReportService, a create call that fails
\* with an error naming a rate or a limit is followed by the long cooldown
\* before anything else happens, and the next create call of the run is for
\* another request: the failed request is not created again.
C22_RateErrorCoolsDownAndContinues ==
    [][/\ (pc \in ServiceCreatePcs /\ last_call'.res = "rate") =>
              pause' >= CreateCooldown
       /\ (last_call.op = "create" /\ last_call.res = "rate"
               /\ submitted' # submitted) =>
              submitted'[Len(submitted')].req # last_call.arg
      ]_vars

\* The integer a header text carries, <<>> when it carries none.
CarriedInteger(text) ==
    CASE text = <<"4">> -> <<4>>
      [] text = <<"5">> -> <<5>>
      [] text = <<" ", "9">> -> <<9>>
      [] text = <<"1", "0">> -> <<10>>
      [] text = <<"7", "7">> -> <<77>>
      [] text = <<"7", "8">> -> <<78>>
      [] OTHER -> <<>>

Parseable(header) == header.present /\ CarriedInteger(header.text) # <<>>

\* A step in which an HTTP response was received.
ResponseReceived == http_sent' = http_sent + 1 /\ last_response'.status # "transport"

\* A step of get_rate_limit_info.
BudgetRead == rate_info' # rate_info /\ rate_info' # <<>>

\* rate_limit_remaining is None before the first response, a response with a
\* parseable X-RateLimit-Remaining sets it to the integer carried, and nothing
\* but a response changes the two attributes; get_rate_limit_info returns them.
C23_Common ==
    /\ ResponseReceived /\ Parseable(last_response'.headers.remaining) =>
           rate_limit_remaining' = CarriedInteger(last_response'.headers.remaining.text)
    /\ ~ResponseReceived =>
           UNCHANGED <<rate_limit_remaining, rate_limit_reset>>
    /\ BudgetRead =>
           rate_info'[1] = [remaining |-> rate_limit_remaining, reset |-> rate_limit_reset]

\* C23 as stated: rate_limit_remaining is the integer of the most recent
\* response with a parseable X-RateLimit-Remaining (None if there was none), a
\* response without that header or with an unparseable value leaves remaining
\* and reset unchanged, and get_rate_limit_info modifies nothing.
C23_UnparseableRemainingLeavesBothUnchanged ==
    /\ rate_limit_remaining = <<>>
    /\ [][/\ C23_Common
          /\ ResponseReceived /\ ~Parseable(last_response'.headers.remaining) =>
                 UNCHANGED <<rate_limit_remaining, rate_limit_reset>>
         ]_vars

\* C23 amended: each attribute follows its own header.  rate_limit_remaining
\* (rate_limit_reset) is the integer of the most recent response with a
\* parseable X-RateLimit-Remaining (X-RateLimit-Reset), None if there was none;
\* a response whose header is missing or unparseable leaves that attribute
\* unchanged, whatever the other header holds; get_rate_limit_info modifies
\* nothing.
C23_EachHeaderUpdatesItsOwnAttribute ==
    /\ rate_limit_remaining = <<>> /\ rate_limit_reset = <<>>
    /\ [][/\ C23_Common
          /\ ResponseReceived /\ Parseable(last_response'.headers.reset) =>
                 rate_limit_reset' = CarriedInteger(last_response'.headers.reset.text)
          /\ ResponseReceived /\ ~Parseable(last_response'.headers.remaining) =>
                 UNCHANGED rate_limit_remaining
          /\ ResponseReceived /\ ~Parseable(last_response'.headers.reset) =>
                 UNCHANGED rate_limit_reset
         ]_vars

\* A budget read after a response with an unparseable X-RateLimit-Remaining and
\* a parseable X-RateLimit-Reset, the earlier remaining value still there.
C23_Witness ==
    /\ rate_info = <<[remaining |-> <<9>>, reset |-> <<78>>]>>
    /\ last_response.status = "200"
    /\ last_response.headers.remaining = Header(<<"1", "x">>)

\* C28: no HTTP attempt of _make_request, a retry included, is sent while the
\* last X-RateLimit-Remaining seen is below 5, unless the user confirmed after
\* that value was seen.
C28_NoAttemptBelowCriticalWithoutConfirmation ==
    [][(http_sent' = http_sent + 1 /\ IsCritical(rate_limit_remaining)) => confirmed]_vars

\* C29: a call makes at most max_retries + 1 HTTP attempts, each failed attempt
\* consuming one, and ends with a 200 response, an APIError or an
\* AuthenticationError: while it runs an attempt within the budget is still to
\* be made, and a returned response is never a 401, a 429 or an HTTP error.
C29_AtMostMaxRetriesPlusOneAttempts ==
    /\ http_sent <= max_retries + 1
    /\ r_pc = "attempt" =>
           /\ http_sent = attempt
           /\ attempt <= max_retries
           /\ r_result = "pending"
           /\ ENABLED HttpAttempt
    /\ (r_pc = "idle" /\ calls > 0) =>
           r_result \in {"response", "APIError", "AuthenticationError"}
    /\ (r_pc = "idle" /\ r_result = "response") => last_response.status = "200"

\* A call that ended with the APIError of its last attempt.
C29_Witness ==
    /\ r_pc = "idle"
    /\ r_result = "APIError"
    /\ max_retries = MaxRetries
    /\ http_sent = MaxRetries + 1
    /\ last_response.status = "429"

\* C30: a 401 ends the call with AuthenticationError on that very attempt, with
\* no further attempt.
C30_UnauthorizedRaisesAtOnce ==
    [][(http_sent' = http_sent + 1 /\ last_response'.status = "401") =>
           /\ r_result' = "AuthenticationError"
           /\ r_pc' = "idle"
      ]_vars

\* A 401 met by a retry, with attempts left.
C30_Witness ==
    /\ r_result = "AuthenticationError"
    /\ last_response.status = "401"
    /\ http_sent = 2
    /\ max_retries = MaxRetries

\* The positions at the head of a polling loop, between two sweeps.
SweepHeadPcs == {"monitor", "main_wait"}

\* A sequence without a repeated element.
NoRepeat(s) == \A a, b \in 1..Len(s) : s[a] = s[b] => a = b

\* C24: a sweep of monitor_reports_until_completion or of
\* wait_for_reports_completion checks, one after the other and once each, the
\* jobs active when it starts and no job already recorded Finished, Error or
\* Cancelled; the loop sleeps once after a sweep that leaves a job active and
\* not at all after one that leaves none, nor anywhere else in the loop.
C24_OneCheckPerActiveJobPerSweep ==
    [][/\ (pc \in SweepHeadPcs /\ pc' \in CheckPcs) =>
              /\ Range(sweep') = ActiveJobs
              /\ NoRepeat(sweep')
              /\ sweep' # <<>>
              /\ UNCHANGED waited
       /\ pc \in CheckPcs =>
              /\ last_call'.op = "check_status"
              /\ last_call'.arg = Head(sweep)
              /\ Head(sweep) \in ActiveJobs
              /\ sweep' = Tail(sweep)
              /\ pc' \in CheckPcs <=> sweep' # <<>>
              /\ IF pc' \in CheckPcs THEN waited' = waited
                 ELSE IF ActiveJobs' # {} THEN waited' = waited + MonitorCheckInterval
                 ELSE waited' = waited
       /\ (pc \in SweepHeadPcs /\ pc' \notin CheckPcs) =>
              /\ UNCHANGED waited
              /\ ActiveJobs = {} \/ waited >= MonitorMaxWait
      ]_vars

\* The second sweep of a loop has ended: it checked the one job the first
\* sweep left active, after one sleep, and found it terminal.
C24_Witness ==
    /\ pc \in SweepHeadPcs
    /\ waited = MonitorCheckInterval
    /\ Len(completed_reports) + Len(failed_reports) >= 2
    /\ ActiveJobs = {}
    /\ last_call.op = "check_status"

\* The positions within monitor_reports_until_completion.
MonitorPcs == {"monitor", "check"}

\* ceil(max_wait / check_interval)
MaxSweeps == (MonitorMaxWait + MonitorCheckInterval - 1) \div MonitorCheckInterval

\* The sweeps that ended with a sleep: waited grows by check_interval each.
SweepsSlept == waited \div MonitorCheckInterval

\* What is left to do in the loop: the sweeps that may still start, then the
\* checks left in the running sweep.
MonitorRank ==
    (MaxSweeps - SweepsSlept) * (Len(created_report_ids) + 2)
        + (IF pc = "check" THEN Len(sweep)
           ELSE IF ActiveJobs = {} THEN 0
           ELSE Len(created_report_ids) + 1)

\* C25: monitor_reports_until_completion terminates.  A sweep that runs is at
\* most the ceil(max_wait / check_interval)-th; every step of the loop is
\* enabled and lowers a rank that stays non-negative; the loop is left as soon
\* as no job is active; and the list returned holds the ids whose check
\* returned Finished, once each.
C25_MonitorTerminatesWithFinishedIds ==
    /\ [](pc \in MonitorPcs =>
              /\ MonitorRank >= 0
              /\ ENABLED (MonitorLoop \/ CheckStatus)
              /\ pc = "check" => SweepsSlept + 1 <= MaxSweeps
              /\ waited = SweepsSlept * MonitorCheckInterval
              /\ NoRepeat(completed_reports))
    /\ [][/\ (pc \in MonitorPcs /\ pc' \in MonitorPcs) => MonitorRank' < MonitorRank
          /\ (pc = "monitor" /\ ActiveJobs = {}) => pc' \notin MonitorPcs
          /\ (pc \notin MonitorPcs /\ pc' \in MonitorPcs) => completed_reports' = <<>>
          /\ pc = "check" =>
                 completed_reports' =
                     IF last_call'.res = "Finished"
                     THEN Append(completed_reports, last_call'.arg)
                     ELSE completed_reports
          /\ pc = "monitor" => UNCHANGED completed_reports
         ]_vars

\* The loop returns at its deadline with one job Finished and one still active.
C25_Witness ==
    /\ pc = "download"
    /\ waited >= MonitorMaxWait
    /\ Len(completed_reports) = 1
    /\ Len(created_report_ids) = 2
    /\ failed_reports = <<>>

\* C26: with this run as the only client, a created job Running until it ends
\* and at most max_running_reports jobs running at the start, the number of
\* jobs in state Running never exceeds max_running_reports, in
\* create_reports_with_smart_batching and in create_reports_with_smart_batching_v2,
\* a job of an earlier batch that timed out and still runs included.
C26_RunningNeverExceedsTheCap == RunningCount <= max_running_reports

\* The second batch has created a job while a job of the first batch, timed
\* out, still runs, and the cap is reached.
C26_Witness ==
    /\ batch_number = 2
    /\ last_call.op = "create"
    /\ last_call.ok
    /\ \E k \in 1..Len(all_processed_reports) :
           /\ all_processed_reports[k].status = "timeout"
           /\ all_processed_reports[k].report_id \in running
    /\ RunningCount = max_running_reports

\* C27: while another run or client creates jobs from its own slot query, the
\* number of jobs in state Running never exceeds max_running_reports.
C27_NoOvershootUnderConcurrency ==
    [][RunningCount' > RunningCount => RunningCount' <= max_running_reports]_vars

\* C31: when create_and_wait_reports_batch returns, the ScanReport row of
\* every job of the result agrees with the entry returned for it: downloaded
\* with the file path after a successful download, a failure status after a
\* failed download, error exactly for a job seen Error or Cancelled, created
\* for a job that was only created.
C31_StoreAgreesWithResult ==
    pc = "v2_after" =>
        \A k \in 1..Len(batch_results) :
            LET entry == batch_results[k]
                row == db[entry.report_id]
            IN  /\ entry.status = "downloaded" =>
                       row.status = "downloaded" /\ row.file_path = entry.filename
                /\ entry.status \in {"download_failed", "download_error"} =>
                       row.status \notin {"created", "downloaded"}
                /\ entry.status = "timeout" => row.status = "created"
                /\ row.status = "error" <=> entry.report_id \in Range(failed_reports)

\* The entries returned so far: by the download loop, by the batch, by v2.
ReturnedEntries ==
    Range(final_reports) \cup Range(batch_results) \cup Range(all_processed_reports)

\* C32: an entry of a result of create_and_wait_reports_batch or of
\* create_reports_with_smart_batching_v2 carries a file name if and only if
\* its status is downloaded, and the name is the one the successful download
\* call returned for the report id of the entry.
C32_FilenameIffDownloaded ==
    /\ [](\A entry \in ReturnedEntries :
              /\ entry.filename # 0 <=> entry.status = "downloaded"
              /\ entry.status = "downloaded" =>
                     /\ entry.filename = db[entry.report_id].file_path
                     /\ entry.report_id \in Range(download_log))
    /\ [][pc = "download" =>
              LET entry == final_reports'[Len(final_reports')]
              IN  /\ entry.report_id = created_reports_info[d].report_id
                  /\ entry.status = "downloaded" <=>
                         /\ download_log' # download_log
                         /\ last_call'.op = "download"
                         /\ last_call'.arg = entry.report_id
                         /\ last_call'.res = "file"
                  /\ entry.status = "downloaded" => entry.filename = last_call'.arg
         ]_vars

\* v2 returned one entry downloaded, with its file name, and one whose
\* download failed, without.
C32_Witness ==
    /\ Len(all_processed_reports) = 2
    /\ all_processed_reports[1].status = "downloaded"
    /\ all_processed_reports[1].filename = all_processed_reports[1].report_id
    /\ all_processed_reports[2].status \in {"download_failed", "download_error"}
    /\ all_processed_reports[2].filename = 0

\* C33: between two consecutive create calls of one batch the orchestrator
\* sleeps, whatever the earlier create did; in create_and_wait_reports_batch,
\* in create_reports_with_smart_batching and in process_network_scans_pdf.
C33_PauseBetweenCreates ==
    [][(submitted' # submitted /\ i > 1) => pause > 0]_vars

\* C34: in wait_for_report_slots the listing of the running jobs is fetched at
\* most once per call, on the first iteration and after a poll that showed too
\* few slots; whether it succeeds or fails, the same sleep follows, no poll is
\* added or skipped, and the value returned is not touched.
C34_ListingIsAdvisory ==
    /\ [](/\ listing_calls <= 1
          /\ w_pc = "polling" => polls * check_interval = slot_waited
          /\ w_pc = "listing" =>
                 /\ slot_waited = 0
                 /\ polls = 1
                 /\ last_call.op = "count"
                 /\ last_call.ok
                 /\ max_running_reports - last_call.arg < required_slots)
    /\ [][/\ w_pc = "listing" =>
                 /\ last_call'.op = "list"
                 /\ listing_calls' = listing_calls + 1
                 /\ polls' = polls
                 /\ slot_waited' = slot_waited + check_interval
                 /\ w_result' = w_result
                 /\ w_pc' = IF slot_waited' < max_wait THEN "polling" ELSE "returned"
          /\ listing_calls' # listing_calls => w_pc = "listing" \/ listing_calls' = 0
         ]_vars

\* The listing of the first iteration failed and the call polls again.
C34_Witness ==
    /\ w_pc = "polling"
    /\ listing_calls = 1
    /\ last_call.op = "list"
    /\ ~last_call.ok


\* ------------------------------------------- wait_until_ready_and_download
\* The largest max_wait and interval of the calls explored.
ReadyMaxWait == 4
ReadyMaxInterval == 2

\* The report the call waits for.
ReadyReport == 1

\* A readiness test that also takes an unreadable status for Finished.
IsReady_OrUnknown(status) == status \in {"Finished", "none"}

\* if status == "Finished":
IsReady(status) == status = "Finished"

\* elif status in ["Error", "Cancelled"]:
IsAbandoned(status) == status \in {"Error", "Cancelled"}

\* What check_report_status gives the caller. QualysClient lets an exception
\* through; QualysAPI, the api of utils.py, turns every exception into None.
ReadyStatusOutcomes(variant) ==
    IF variant = "service" THEN StatusOutcomes ELSE StatusOutcomes \ {"raise"}

\* while waited < max_wait:
ReadyContinues(w, limit) == w < limit

\* time.sleep(interval); waited += interval, then the loop test.
ReadySleepAndTest ==
    /\ u_waited' = u_waited + u_interval
    /\ u_pc' = IF ReadyContinues(u_waited', u_max_wait) THEN "polling" ELSE "returned"
    /\ u_result' = <<>>

\* The row of the report after the Error/Cancelled branch of the service.
ReadyMarkError(rows) ==
    IF ReadyReport \in DOMAIN rows
    THEN [rows EXCEPT ![ReadyReport].status = "error"]
    ELSE rows

\* The row of the report after a download that returned a file name.
ReadyMarkDownloaded(rows, filename) ==
    IF ReadyReport \in DOMAIN rows
    THEN [rows EXCEPT ![ReadyReport].status = "downloaded",
                      ![ReadyReport].file_path = filename]
    ELSE rows

\* One turn of the loop up to the branch on the status.
ReadyPoll ==
    /\ u_pc = "polling"
    /\ \E outcome \in ReadyStatusOutcomes(u_variant) :
        /\ last_call' = Call("status", ReadyReport, outcome, outcome # "raise")
        /\ IF outcome = "raise"
           THEN /\ ReadySleepAndTest
                /\ UNCHANGED <<u_status, db>>
           ELSE IF IsReady(outcome)
           THEN /\ u_pc' = "download"
                /\ u_status' = outcome
                /\ UNCHANGED <<u_waited, u_result, db>>
           ELSE IF IsAbandoned(outcome)
           THEN /\ u_pc' = "returned"
                /\ u_status' = outcome
                /\ u_result' = <<>>
                /\ db' = IF u_variant = "service" THEN ReadyMarkError(db) ELSE db
                /\ UNCHANGED u_waited
           ELSE /\ ReadySleepAndTest
                /\ u_status' = outcome
                /\ UNCHANGED db
    /\ u_polls' = u_polls + 1
    /\ UNCHANGED <<u_variant, u_max_wait, u_interval, u_downloads>>
    /\ UNCHANGED <<v2vars, v1vars, planvars, waitvars, confvars, reqvars, mainvars>>
    /\ UNCHANGED <<pc, reports_to_create, batch, i, next_id, submitted, events>>
    /\ UNCHANGED <<available_slots, download_log, rate_limit_remaining, pause>>
    /\ UNCHANGED <<remotevars, limitvars>>

\* The Finished branch: the download and what follows it. The service catches
\* a download that raises and goes on polling; utils.py lets it through.
ReadyDownload ==
    /\ u_pc = "download"
    /\ \E outcome \in DownloadOutcomes :
        /\ last_call' = Call("download", ReadyReport, outcome, outcome # "raise")
        /\ IF outcome = "file"
           THEN /\ u_pc' = "returned"
                /\ u_result' = <<ReadyReport>>
                /\ db' = IF u_variant = "service"
                         THEN ReadyMarkDownloaded(db, ReadyReport)
                         ELSE db
                /\ UNCHANGED u_waited
           ELSE IF outcome = "none"
           THEN /\ u_pc' = "returned"
                /\ u_result' = <<>>
                /\ UNCHANGED <<u_waited, db>>
           ELSE IF u_variant = "service"
           THEN /\ ReadySleepAndTest
                /\ UNCHANGED db
           ELSE /\ u_pc' = "raised"
                /\ UNCHANGED <<u_waited, u_result, db>>
    /\ u_downloads' = u_downloads + 1
    /\ UNCHANGED <<u_variant, u_max_wait, u_interval, u_status, u_polls>>
    /\ UNCHANGED <<v2vars, v1vars, planvars, waitvars, confvars, reqvars, mainvars>>
    /\ UNCHANGED <<pc, reports_to_create, batch, i, next_id, submitted, events>>
    /\ UNCHANGED <<available_slots, download_log, rate_limit_remaining, pause>>
    /\ UNCHANGED <<remotevars, limitvars>>

\* wait_until_ready_and_download(report_id, max_wait, interval) of the service
\* or of utils.py, for a report that has a row in the store or has none.
InitReady ==
    /\ pc = "ready_only"
    /\ reports_to_create = <<>>
    /\ InitV2Vars
    /\ InitConf
    /\ InitMainIdle
    /\ InitRequestIdle
    /\ InitWaitIdle
    /\ InitV1Idle
    /\ InitPlanIdle
    /\ InitLimitIdle
    /\ running = {}
    /\ foreign = 0
    /\ other_pending = 0
    /\ pause = 0
    /\ available_slots = 0
    /\ download_log = <<>>
    /\ rate_limit_remaining = <<>>
    /\ batch = <<>>
    /\ i = 1
    /\ next_id = 1
    /\ submitted = <<>>
    /\ last_call = NoCall
    /\ events = <<>>
    /\ db \in {<<>>, <<NewRow>>}
    /\ u_variant \in {"service", "utils"}
    /\ u_max_wait \in 0..ReadyMaxWait
    /\ u_interval \in 1..ReadyMaxInterval
    /\ u_waited = 0
    /\ u_status = "none"
    /\ u_result = <<>>
    /\ u_polls = 0
    /\ u_downloads = 0
    /\ u_pc = IF ReadyContinues(0, u_max_wait) THEN "polling" ELSE "returned"

NextReady ==
    \/ ReadyPoll
    \/ ReadyDownload

SpecReady == InitReady /\ [][NextReady]_vars


\* The turns of the loop that ended in a sleep.
ReadySlept == u_waited \div u_interval

\* C35: wait_until_ready_and_download returns a file name only when its last
\* status check returned Finished and the download call that followed returned
\* that name; a status check that returns Error or Cancelled makes it return
\* None at once, with no download call at that turn or after it; and it
\* terminates: every turn of the loop is enabled and either leaves it or adds
\* interval to waited, it issues at most ceil(max_wait / interval) status
\* checks, and it returns None when waited reaches max_wait, after exactly
\* that many turns that neither returned nor raised.
C35_PathOnlyAfterFinishedAndBoundedWait ==
    /\ [](/\ u_result # <<>> =>
                /\ u_pc = "returned"
                /\ u_status = "Finished"
                /\ last_call = Call("download", ReadyReport, "file", TRUE)
                /\ u_result = <<last_call.arg>>
          /\ (u_pc = "returned" /\ u_status \in {"Error", "Cancelled"}) =>
                /\ u_result = <<>>
                /\ last_call.op = "status"
                /\ last_call.res = u_status
          /\ u_polls <= CeilDiv(u_max_wait, u_interval)
          /\ u_waited = ReadySlept * u_interval
          /\ u_pc \in {"polling", "download"} =>
                u_waited < u_max_wait /\ ENABLED NextReady
          /\ u_pc = "download" => last_call = Call("status", ReadyReport, "Finished", TRUE)
          /\ (u_pc = "returned" /\ u_waited >= u_max_wait) =>
                /\ u_result = <<>>
                /\ ReadySlept = CeilDiv(u_max_wait, u_interval)
                /\ ReadySlept <= u_polls)
    /\ [][/\ (u_polls' # u_polls /\ last_call'.res \in {"Error", "Cancelled"}) =>
                /\ u_pc' = "returned"
                /\ u_result' = <<>>
                /\ u_downloads' = u_downloads
          /\ u_downloads' # u_downloads => u_pc = "download"
          /\ u_pc \in {"polling", "download"} =>
                \/ u_pc' \in {"returned", "raised"}
                \/ u_waited' = u_waited + u_interval
                \/ u_pc = "polling" /\ u_pc' = "download"
         ]_vars

\* The service returned the file name at its second download call, the first
\* having raised, and stored it in the row of the report.
C35_Witness ==
    /\ u_pc = "returned"
    /\ u_variant = "service"
    /\ u_result = <<ReadyReport>>
    /\ u_downloads = 2
    /\ u_polls = 2
    /\ ReadyReport \in DOMAIN db
    /\ db[ReadyReport].status = "downloaded"


\* ------------------------------------------------ create_reports_with_limit
\* The largest lot and the longest list of items of the calls explored.
MaxLot == 2
MaxItems == 5

\* MAX_REPORTS of utils.py, scaled down.
MAX_REPORTS == MaxLot

\* The lists of items of create_reports_with_limit.
ItemLists == {[k \in 1..n |-> k] : n \in 0..MaxItems}

\* A lot that is closed one report late.
LotIsFull_OneLate(lot) == Len(lot) = MAX_REPORTS + 1

\* if len(batch) == MAX_REPORTS:
LotIsFull(lot) == Len(lot) = MAX_REPORTS

\* The position at or after `from` of the next id of the lot that the for loop
\* of wait_for_reports_to_finish does not skip; 0 when there is none.
NextUnfinished(lot, finished, from) ==
    LET left == {p \in from..Len(lot) : lot[p] \notin finished}
    IN  IF left = {} THEN 0 ELSE CHOOSE p \in left : \A q \in left : p <= q

\* The state after the for loop of create_reports_with_limit took the next
\* item, or left: the lot that remains is waited for before the return.
LimitAdvance(lot) ==
    /\ l_k' = l_k + 1
    /\ l_pc' = IF l_k' <= Len(l_items) THEN "create"
               ELSE IF lot # <<>> THEN "wait"
               ELSE "done"

\* One turn of the for loop of create_reports_with_limit: create_func(item),
\* which returns None when the platform gave no id, then the test of the lot.
LimitCreate ==
    /\ l_pc = "create"
    /\ \E ok \in BOOLEAN :
        LET report_id == IF ok THEN next_id ELSE 0
            lot == IF ok THEN Append(l_batch, report_id) ELSE l_batch
        IN  /\ last_call' = Call("create", l_items[l_k], report_id, ok)
            /\ next_id' = IF ok THEN next_id + 1 ELSE next_id
            /\ running' = IF ok THEN running \cup {report_id} ELSE running
            /\ l_batch' = lot
            /\ IF LotIsFull(lot)
               THEN /\ l_pc' = "wait"
                    /\ l_k' = l_k + 1
               ELSE LimitAdvance(lot)
    /\ l_finished' = {}
    /\ l_sweep' = 1
    /\ UNCHANGED <<l_items, l_all_reports, foreign, other_pending>>
    /\ UNCHANGED <<v2vars, v1vars, planvars, waitvars, confvars, reqvars, mainvars>>
    /\ UNCHANGED <<pc, reports_to_create, batch, i, db, submitted, events>>
    /\ UNCHANGED <<available_slots, download_log, rate_limit_remaining, pause>>
    /\ UNCHANGED readyvars

\* One status check of wait_for_reports_to_finish, for the next id of the lot
\* that is not in finished, and what follows it: the rest of the sweep, or the
\* sleep and a new sweep, or the return to create_reports_with_limit, which
\* moves the lot to all_reports.  The api answers None when the check failed.
LimitCheck ==
    /\ l_pc = "wait"
    /\ \E outcome \in StatusOutcomes \ {"raise"} :
        LET report_id == l_batch[l_sweep]
            finished == IF outcome \in TerminalStates
                        THEN l_finished \cup {report_id}
                        ELSE l_finished
            rest == NextUnfinished(l_batch, finished, l_sweep + 1)
        IN  /\ last_call' = Call("status", report_id, outcome, TRUE)
            /\ IF rest # 0
               THEN /\ l_sweep' = rest
                    /\ l_finished' = finished
                    /\ UNCHANGED <<l_pc, l_batch, l_all_reports>>
               ELSE IF Cardinality(finished) < Len(l_batch)
               THEN /\ l_sweep' = NextUnfinished(l_batch, finished, 1)
                    /\ l_finished' = finished
                    /\ UNCHANGED <<l_pc, l_batch, l_all_reports>>
               ELSE /\ l_all_reports' = l_all_reports \o l_batch
                    /\ l_batch' = <<>>
                    /\ l_finished' = {}
                    /\ l_sweep' = 1
                    /\ l_pc' = IF l_k <= Len(l_items) THEN "create" ELSE "done"
    /\ UNCHANGED <<l_items, l_k, next_id>>
    /\ UNCHANGED <<v2vars, v1vars, planvars, waitvars, confvars, reqvars, mainvars>>
    /\ UNCHANGED <<pc, reports_to_create, batch, i, db, submitted, events>>
    /\ UNCHANGED <<available_slots, download_log, rate_limit_remaining, pause>>
    /\ UNCHANGED <<remotevars, readyvars>>

\* The status check just answered gave the state of the job: Running while
\* it runs, one of the terminal states once it ended.
AnsweredStatus ==
    /\ last_call.res # "none"
    /\ last_call.res = "Running" <=> last_call.arg \in running

\* The status check just answered was truthful or failed.
TruthfulOrFailed == last_call.res = "none" \/ AnsweredStatus

\* create_reports_with_limit(api, items, create_func) on a platform where the
\* jobs it creates end one by one.
InitLimit ==
    /\ pc = "limit_only"
    /\ reports_to_create = <<>>
    /\ InitV2Vars
    /\ InitConf
    /\ InitMainIdle
    /\ InitRequestIdle
    /\ InitRun
    /\ InitReadyIdle
    /\ InitWaitIdle
    /\ InitV1Idle
    /\ InitPlanIdle
    /\ l_items \in ItemLists
    /\ l_k = 1
    /\ l_batch = <<>>
    /\ l_all_reports = <<>>
    /\ l_finished = {}
    /\ l_sweep = 1
    /\ l_pc = IF l_items = <<>> THEN "done" ELSE "create"

NextLimit ==
    \/ LimitCreate
    \/ LimitCheck /\ TruthfulOrFailed'
    \/ JobEnds

\* Every job ends, and a status check that keeps being asked is answered in
\* the end.
FairLimit ==
    /\ WF_vars(LimitCreate)
    /\ WF_vars(JobEnds)
    /\ SF_vars(LimitCheck /\ AnsweredStatus')

SpecLimit == InitLimit /\ [][NextLimit]_vars /\ FairLimit


\* The reports the call created and has not seen in a terminal state.
Outstanding == Range(l_batch) \ l_finished

\* The ids the platform gave to the call, in the order of their creation.
CreatedInOrder == [k \in 1..(next_id - 1) |-> k]

====
